---------------------------- MODULE Spec2Model ----------------------------
(***************************************************************************)
(* A model of the reconciliation and retry engine of the Radio X to        *)
(* Spotify playlist adder (src/radiox_spotify.py): title rewriting and     *)
(* catalog search, the recently-added window, the playlist size governor,  *)
(* the duplicate sweep and the failed-search queue.                        *)
(***************************************************************************)
EXTENDS Integers, Sequences, FiniteSets, TLC

(***************************************************************************)
(* Bounds of the model and program constants.                              *)
(***************************************************************************)
\* Titles are sequences of at most MaxTitleLen tokens.
MaxTitleLen == 3
\* Catalog (Spotify track) IDs are 1..NumCatalogIds.
NumCatalogIds == 2

\* Python's None for a track ID (an ID is a positive number here).
NONE == 0
\* The string flag _attempt_search_spotify returns on a search exception.
NETWORK_ERROR_FLAG == -1
MAX_FAILED_SEARCH_ATTEMPTS == 3

CatalogIds == 1..NumCatalogIds

(***************************************************************************)
(* Titles.  A title is a sequence of tokens: a word in lower or upper      *)
(* case, a space, the two kinds of brackets and the token "feat.".         *)
(***************************************************************************)
TitleTokens == {"a", " ", "(", ")", "feat."}

RECURSIVE SeqsUpTo(_, _)
SeqsUpTo(S, n) ==
    IF n = 0 THEN {<<>>}
    ELSE LET shorter == SeqsUpTo(S, n - 1)
         IN shorter \cup {Append(s, x) : s \in shorter, x \in S}

\* str.lower()
Lower(t) == [i \in DOMAIN t |-> IF t[i] = "A" THEN "a" ELSE t[i]]

RECURSIVE LStrip(_)
LStrip(t) == IF t # <<>> /\ Head(t) = " " THEN LStrip(Tail(t)) ELSE t

RECURSIVE RStrip(_)
RStrip(t) ==
    IF t # <<>> /\ t[Len(t)] = " " THEN RStrip(SubSeq(t, 1, Len(t) - 1)) ELSE t

\* str.strip()
Strip(t) == RStrip(LStrip(t))

\* The number of spaces t starts with at position i (the greedy \s*).
RECURSIVE SpacesAt(_, _)
SpacesAt(t, i) ==
    IF i <= Len(t) /\ t[i] = " " THEN 1 + SpacesAt(t, i + 1) ELSE 0

\* The first position >= i of token c in t, or 0.
RECURSIVE FirstAt(_, _, _)
FirstAt(t, c, i) ==
    IF i > Len(t) THEN 0
    ELSE IF t[i] = c THEN i ELSE FirstAt(t, c, i + 1)

\* The length of the match of  \s*<open>.*?<close>\s*  at the head of t, or 0.
MatchGroupAt(t, open, close) ==
    LET s == SpacesAt(t, 1)
        k == IF s + 1 <= Len(t) /\ t[s + 1] = open
             THEN FirstAt(t, close, s + 2) ELSE 0
    IN IF k = 0 THEN 0 ELSE k + SpacesAt(t, k + 1)

\* re.sub(r'\s*\(.*?\)\s*', ' ', t): every leftmost match becomes one space.
RECURSIVE SubParen(_)
SubParen(t) ==
    IF t = <<>> THEN <<>>
    ELSE LET m == MatchGroupAt(t, "(", ")")
         IN IF m > 0 THEN <<" ">> \o SubParen(SubSeq(t, m + 1, Len(t)))
            ELSE <<Head(t)>> \o SubParen(Tail(t))

\* re.sub(r'\s*\[.*?\]\s*|feat\..*', ' ', t, flags=re.IGNORECASE): the first
\* alternative is tried first at each position; feat\..* runs to the end.
RECURSIVE SubFeat(_)
SubFeat(t) ==
    IF t = <<>> THEN <<>>
    ELSE LET m == MatchGroupAt(t, "[", "]")
         IN IF m > 0 THEN <<" ">> \o SubFeat(SubSeq(t, m + 1, Len(t)))
            ELSE IF Head(t) = "feat." THEN <<" ">>
            ELSE <<Head(t)>> \o SubFeat(Tail(t))

cleaned_title_paren(original_title) == Strip(SubParen(original_title))
cleaned_title_feat(original_title) == Strip(SubFeat(original_title))

\* Titles as the feed hands them over: stripped and not empty.
Titles ==
    {t \in SeqsUpTo(TitleTokens, MaxTitleLen) : t # <<>> /\ Strip(t) = t}

(***************************************************************************)
(* The catalog search.  The catalog is a function from the title searched  *)
(* to the track it returns (NONE: no item); a search call can also end in  *)
(* an exception once spotify_api_call_with_retry has given up.             *)
(***************************************************************************)
\* Every title a resolution of original_title can search for.
Candidates(original_title) ==
    LET first == {original_title, cleaned_title_paren(original_title),
                  cleaned_title_feat(original_title)}
    IN first \cup {cleaned_title_paren(t) : t \in first}
             \cup {cleaned_title_feat(t) : t \in first}

\* _attempt_search_spotify: the search call is the k-th of this resolution and
\* raises when k = err.  A fresh event (a radiox id, not a retry) hands the
\* failure to add_to_failed_search_queue.
queueable(radiox_id_for_queue, is_retry_from_queue) ==
    radiox_id_for_queue # NONE /\ ~is_retry_from_queue

\* RadioXBot has no method add_to_failed_search_queue: the call at line 924
\* raises AttributeError inside the except clause, and the error leaves
\* search_song_on_spotify.
add_to_failed_search_queue_raises == TRUE

attempt_search_spotify(title_to_search, k, err, cat) ==
    IF k = err THEN NETWORK_ERROR_FLAG ELSE cat[title_to_search]

\* A resolver that searches the title without parentheses before the raw one.
attempt_titles_paren_first(original_title) ==
    <<cleaned_title_paren(original_title), original_title>>

\* The titles search_song_on_spotify tries, in order: the original title, the
\* title without parentheses when it is not empty and differs from the
\* original, the title without brackets and feat. when it is not empty and
\* differs from both.
search_attempt_titles(original_title) ==
    LET paren == cleaned_title_paren(original_title)
        feat == cleaned_title_feat(original_title)
    IN <<original_title>>
       \o (IF paren # <<>> /\ Lower(paren) # Lower(original_title)
           THEN <<paren>> ELSE <<>>)
       \o (IF feat # <<>> /\ Lower(feat) # Lower(original_title)
              /\ Lower(feat) # Lower(paren)
           THEN <<feat>> ELSE <<>>)

\* The attempts of one resolution from the k-th title on: the searches made,
\* the value returned, whether the call raised, the position among the
\* searches of the one that ended in an exception (0: none) and whether the
\* not-found failure was recorded.
Shifted(fault, n) == IF fault = 0 THEN 0 ELSE fault + n

RECURSIVE search_from(_, _, _, _, _, _)
search_from(titles, k, err, cat, fresh, is_retry_from_queue) ==
    IF k > Len(titles)
    THEN [searched |-> <<>>, ret |-> NONE, raised |-> FALSE,
          fault |-> 0, failure |-> ~is_retry_from_queue]
    ELSE LET spotify_id == attempt_search_spotify(titles[k], k, err, cat)
         IN IF spotify_id = NETWORK_ERROR_FLAG
            THEN [searched |-> <<titles[k]>>, ret |-> NONE,
                  raised |-> fresh /\ add_to_failed_search_queue_raises,
                  fault |-> 1, failure |-> FALSE]
            ELSE IF spotify_id # NONE
            THEN [searched |-> <<titles[k]>>, ret |-> spotify_id,
                  raised |-> FALSE, fault |-> 0, failure |-> FALSE]
            ELSE LET rest == search_from(titles, k + 1, err, cat, fresh,
                                         is_retry_from_queue)
                 IN [rest EXCEPT !.searched = <<titles[k]>> \o @,
                                 !.fault = Shifted(@, 1)]

\* search_song_on_spotify: the set of its possible courses, one for each way
\* its search calls can end: none raises (err = 0) or the err-th one does.
search_song_on_spotify(client, original_title, radiox_id_for_queue, is_retry_from_queue, cat) ==
    IF ~client
    THEN {[searched |-> <<>>, ret |-> NONE, raised |-> FALSE,
           fault |-> 0, failure |-> FALSE]}
    ELSE LET titles == search_attempt_titles(original_title)
             fresh == queueable(radiox_id_for_queue, is_retry_from_queue)
         IN {search_from(titles, 1, err, cat, fresh, is_retry_from_queue) : err \in 0..Len(titles)}

(***************************************************************************)
(* SmartSearchStrategy: the success rates of the three strategies for one  *)
(* artist, in the order of the dictionary, in units of 1/RATE_ONE; <<>>    *)
(* while the artist has no entry.                                          *)
(***************************************************************************)
RATE_ONE == 10000
StrategyNames == <<"original", "no_parentheses", "no_features">>
NoPatterns == <<>>

\* A variant that keeps only the strategy with the best rate.
get_best_strategy_only(patterns) ==
    IF patterns = NoPatterns THEN StrategyNames
    ELSE <<StrategyNames[CHOOSE i \in 1..3 :
              \A j \in 1..3 : \/ patterns[i] > patterns[j]
                              \/ patterns[i] = patterns[j] /\ i <= j]>>

\* sorted(patterns.items(), key=rate, reverse=True): a stable sort, so equal
\* rates keep the order of the dictionary.
get_optimal_search_order(patterns) ==
    IF patterns = NoPatterns THEN StrategyNames
    ELSE LET before(i) ==
                 Cardinality({j \in 1..3 : \/ patterns[j] > patterns[i]
                                           \/ patterns[j] = patterns[i] /\ j < i})
         IN [p \in 1..3 |->
                StrategyNames[CHOOSE i \in 1..3 : before(i) = p - 1]]

StrategyIndex(strategy) == CHOOSE i \in 1..3 : StrategyNames[i] = strategy

\* new_rate = current_rate * 0.9 + (1.0 if success else 0.0) * 0.1
update_success_rate(patterns, strategy, success) ==
    LET known == IF patterns = NoPatterns
                 THEN [i \in 1..3 |-> RATE_ONE \div 2] ELSE patterns
        i == StrategyIndex(strategy)
    IN [known EXCEPT
          ![i] = (@ * 9 + (IF success THEN RATE_ONE ELSE 0)) \div 10]

strategy_title(strategy, original_title) ==
    IF strategy = "original" THEN original_title
    ELSE IF strategy = "no_parentheses" THEN cleaned_title_paren(original_title)
    ELSE cleaned_title_feat(original_title)

\* The loop of search_song_on_spotify_smart from the k-th strategy on: the
\* set of its possible courses, one for each way the search calls can end
\* (each call of a strategy's search may be the one that raises).
RECURSIVE smart_from(_, _, _, _, _, _, _, _)
smart_from(client, strategies, k, original_title, radiox_id, is_retry, cat, patterns) ==
    IF k > Len(strategies)
    THEN {[searched |-> <<>>, ret |-> NONE, raised |-> FALSE,
           fault |-> 0, failure |-> ~is_retry, patterns |-> patterns,
           inner_failures |-> 0]}
    ELSE LET title_to_search == strategy_title(strategies[k], original_title)
             inner == search_song_on_spotify(client, title_to_search, radiox_id, is_retry, cat)
             rest == smart_from(client, strategies, k + 1, original_title,
                                radiox_id, is_retry, cat,
                                update_success_rate(patterns, strategies[k], FALSE))
         IN UNION {
              IF r.raised
              THEN {[searched |-> r.searched, ret |-> NONE, raised |-> TRUE,
                     fault |-> r.fault, failure |-> FALSE,
                     patterns |-> patterns, inner_failures |-> 0]}
              ELSE IF r.ret # NONE
              THEN {[searched |-> r.searched, ret |-> r.ret, raised |-> FALSE,
                     fault |-> 0, failure |-> FALSE,
                     patterns |-> update_success_rate(patterns, strategies[k], TRUE),
                     inner_failures |-> 0]}
              ELSE {[x EXCEPT
                       !.searched = r.searched \o @,
                       !.fault = IF r.fault # 0 THEN r.fault
                                 ELSE Shifted(@, Len(r.searched)),
                       !.inner_failures = @ + (IF r.failure THEN 1 ELSE 0)]
                    : x \in rest}
              : r \in inner}

search_song_on_spotify_smart(client, original_title, radiox_id, is_retry, cat, patterns) ==
    smart_from(client, get_optimal_search_order(patterns), 1, original_title,
               radiox_id, is_retry, cat, patterns)

(***************************************************************************)
(* The playlist.  A playlist is the sequence of its track IDs, oldest      *)
(* first; the program's sizes are scaled down.                             *)
(***************************************************************************)
\* MAX_PLAYLIST_SIZE is 500 in the program.
MAX_PLAYLIST_SIZE == 2
\* RECENTLY_ADDED_SPOTIFY_IDS is a deque(maxlen=20) in the program.
RecentMaxLen == 1
\* The playlists of the model have at most MaxPlaylistLen tracks.
MaxPlaylistLen == 4

Range(s) == {s[i] : i \in DOMAIN s}
Count(pl, track_id) == Cardinality({i \in DOMAIN pl : pl[i] = track_id})

\* An append to a deque without a maxlen.
deque_append_unbounded(d, x, maxlen) == Append(d, x)

\* An append that records nothing.
deque_append_lost(d, x, maxlen) == d

\* deque.appendleft on a deque(maxlen=...): a full deque drops its tail.
deque_appendleft(d, x, maxlen) ==
    LET a == <<x>> \o d IN IF Len(a) > maxlen THEN SubSeq(a, 1, maxlen) ELSE a

\* deque.append on a deque(maxlen=...): a full deque drops its head.
deque_append(d, x, maxlen) ==
    LET a == Append(d, x) IN IF Len(a) > maxlen THEN Tail(a) ELSE a

\* deque(iterable, maxlen=...): the last maxlen elements are kept.
RECURSIVE deque_load(_, _)
deque_load(items, maxlen) ==
    IF Len(items) > maxlen THEN deque_load(Tail(items), maxlen) ELSE items

\* A removal that takes the first occurrence only.
remove_first_occurrence(pl, track_id) ==
    IF track_id \notin Range(pl) THEN pl
    ELSE LET i == CHOOSE i \in DOMAIN pl :
                      pl[i] = track_id /\ \A j \in 1..(i - 1) : pl[j] # track_id
         IN SubSeq(pl, 1, i - 1) \o SubSeq(pl, i + 1, Len(pl))

\* sp.playlist_remove_all_occurrences_of_items(playlist_id, [track_id])
playlist_remove_all_occurrences_of_items(pl, track_id) ==
    SelectSeq(pl, LAMBDA x : x # track_id)

\* A governor that makes no call and leaves the playlist as it is.
manage_playlist_size_skipped(pl, outcome) ==
    [playlist |-> pl, ok |-> TRUE, calls |-> <<>>]

\* manage_playlist_size: reads the total and the oldest item and, at or over
\* the limit, removes every occurrence of the oldest track.  outcome: which of
\* its calls raises, if any.
SizeOutcomes == {"ok", "read_fails", "remove_fails"}
manage_playlist_size(pl, outcome) ==
    IF outcome = "read_fails"
    THEN [playlist |-> pl, ok |-> FALSE, calls |-> <<"playlist_items">>]
    ELSE IF Len(pl) >= MAX_PLAYLIST_SIZE /\ pl # <<>>
    THEN IF outcome = "remove_fails"
         THEN [playlist |-> pl, ok |-> FALSE,
               calls |-> <<"playlist_items", "playlist_remove_all_occurrences_of_items">>]
         ELSE [playlist |-> playlist_remove_all_occurrences_of_items(pl, pl[1]),
               ok |-> TRUE,
               calls |-> <<"playlist_items", "playlist_remove_all_occurrences_of_items">>]
    ELSE [playlist |-> pl, ok |-> TRUE, calls |-> <<"playlist_items">>]

\* A membership test that never finds the track.
never_recently_added(spotify_track_id, recent) == FALSE

\* spotify_track_id in self.RECENTLY_ADDED_SPOTIFY_IDS
recently_added(spotify_track_id, recent) == spotify_track_id \in Range(recent)

\* A caller that gives up when the governor has failed.
proceed_only_when_managed(managed) == managed

\* Lines 962-963: when manage_playlist_size returns False the warning
\* "Adding anyway" is logged and add_song_to_playlist goes on.
proceed_after_governor(managed) == TRUE

\* add_song_to_playlist.  size_outcome, add_outcome: how the calls of
\* manage_playlist_size and of the insert end.
AddOutcomes == {"ok", "track_fails", "add_fails", "duplicate_403"}
add_song_to_playlist(client, spotify_track_id, pl, recent, size_outcome, add_outcome) ==
    IF ~client
    THEN [playlist |-> pl, recent |-> recent, result |-> FALSE, skipped |-> FALSE,
          size_ok |-> TRUE, inserted |-> FALSE, calls |-> <<>>, failures |-> <<>>]
    ELSE IF recently_added(spotify_track_id, recent)
    THEN [playlist |-> pl, recent |-> recent, result |-> TRUE, skipped |-> TRUE,
          size_ok |-> TRUE, inserted |-> FALSE, calls |-> <<>>, failures |-> <<>>]
    ELSE LET m == manage_playlist_size(pl, size_outcome)
         IN IF ~proceed_after_governor(m.ok)
            THEN [playlist |-> m.playlist, recent |-> recent, result |-> FALSE,
                  skipped |-> FALSE, size_ok |-> m.ok, inserted |-> FALSE,
                  calls |-> m.calls, failures |-> <<>>]
            ELSE IF add_outcome = "ok"
            THEN [playlist |-> Append(m.playlist, spotify_track_id),
                  recent |-> deque_append(recent, spotify_track_id, RecentMaxLen),
                  result |-> TRUE, skipped |-> FALSE, size_ok |-> m.ok,
                  inserted |-> TRUE,
                  calls |-> m.calls \o <<"track", "playlist_add_items">>,
                  failures |-> <<>>]
            ELSE IF add_outcome = "track_fails"
            THEN [playlist |-> m.playlist, recent |-> recent,
                  result |-> FALSE, skipped |-> FALSE, size_ok |-> m.ok,
                  inserted |-> FALSE, calls |-> m.calls \o <<"track">>,
                  failures |-> <<"add_error">>]
            ELSE IF add_outcome = "add_fails"
            THEN [playlist |-> m.playlist, recent |-> recent,
                  result |-> FALSE, skipped |-> FALSE, size_ok |-> m.ok,
                  inserted |-> FALSE,
                  calls |-> m.calls \o <<"track", "playlist_add_items">>,
                  failures |-> <<"add_error">>]
            ELSE [playlist |-> m.playlist,
                  recent |-> deque_append(recent, spotify_track_id, RecentMaxLen),
                  result |-> FALSE, skipped |-> FALSE, size_ok |-> m.ok,
                  inserted |-> FALSE,
                  calls |-> m.calls \o <<"track", "playlist_add_items">>,
                  failures |-> <<"duplicate">>]

\* Every way a call of add_song_to_playlist can end.
add_song_results(client, spotify_track_id, pl, recent) ==
    {add_song_to_playlist(client, spotify_track_id, pl, recent, s, a) :
        s \in SizeOutcomes, a \in AddOutcomes}

\* What a call of add_song_to_playlist can return and leave behind.
add_song_effects(client, spotify_track_id, pl, recent) ==
    {[result |-> a.result, playlist |-> a.playlist, recent |-> a.recent] :
        a \in add_song_results(client, spotify_track_id, pl, recent)}

\* Counter(t['id'] for t in all_tracks): the IDs in the order of their first
\* occurrence; the sweep handles those that occur more than once.
RECURSIVE first_occurrences(_)
first_occurrences(pl) ==
    IF pl = <<>> THEN <<>>
    ELSE <<Head(pl)>> \o first_occurrences(SelectSeq(Tail(pl), LAMBDA x : x # Head(pl)))

duplicated_ids(pl) == SelectSeq(first_occurrences(pl), LAMBDA c : Count(pl, c) > 1)

\* The loop of check_and_remove_duplicates from the k-th duplicated ID on,
\* n calls having been made; the fail_at-th call of the sweep raises (0: none)
\* and the one try/except around the sweep ends it there.
RECURSIVE sweep_from(_, _, _, _, _, _)
sweep_from(dups, k, n, fail_at, pl, recent) ==
    IF k > Len(dups)
    THEN [playlist |-> pl, recent |-> recent, failed |-> FALSE, handled |-> k - 1]
    ELSE IF fail_at = n + 1
    THEN [playlist |-> pl, recent |-> recent, failed |-> TRUE, handled |-> k - 1]
    ELSE LET removed == playlist_remove_all_occurrences_of_items(pl, dups[k])
         IN IF fail_at = n + 2
            THEN [playlist |-> removed, recent |-> recent, failed |-> TRUE,
                  handled |-> k - 1]
            ELSE sweep_from(dups, k + 1, n + 2, fail_at, Append(removed, dups[k]),
                            deque_append(recent, dups[k], RecentMaxLen))

\* check_and_remove_duplicates: call 1 reads the playlist, then each
\* duplicated ID takes a removal and an insert.
check_and_remove_duplicates(client, pl, recent, fail_at) ==
    IF ~client \/ fail_at = 1 \/ pl = <<>>
    THEN [playlist |-> pl, recent |-> recent,
          failed |-> client /\ fail_at = 1, handled |-> 0]
    ELSE sweep_from(duplicated_ids(pl), 1, 1, fail_at, pl, recent)

\* The calls one sweep of pl makes when none fails.
sweep_calls(pl) == 1 + 2 * Len(duplicated_ids(pl))

\* The calls of a sweep in their order: the read of the playlist, then for
\* each duplicated ID its removal and its insert (lines 1013, 1028, 1029).
RECURSIVE sweep_call_names(_)
sweep_call_names(n) ==
    IF n = 0 THEN <<"playlist_items">>
    ELSE sweep_call_names(n - 1)
         \o <<"playlist_remove_all_occurrences_of_items", "playlist_add_items">>

\* The calls a sweep has made when its fail_at-th call raises (0: none does).
sweep_calls_made(client, pl, fail_at) ==
    IF ~client THEN <<>>
    ELSE LET names == sweep_call_names(Len(duplicated_ids(pl)))
         IN IF fail_at = 0 THEN names ELSE SubSeq(names, 1, fail_at)

(***************************************************************************)
(* State.                                                                  *)
(***************************************************************************)
VARIABLES
    sp,                          \* the Spotify client is set (authenticated)
    title,                       \* the title of the event being resolved
    catalog,                     \* the catalog: title searched -> track or NONE
    artist_success_patterns,     \* SmartSearchStrategy, for the event's artist
    learned,                     \* smart resolutions made for the artist
    resolution,                  \* the last resolution: what it did and returned
    playlist,                    \* the target playlist, oldest first
    RECENTLY_ADDED_SPOTIFY_IDS,  \* deque(maxlen=20)
    failed_search_queue,         \* deque(maxlen=5) of retry items
    failed_queue_file,           \* .cache/failed_queue.json
    last_added_radiox_track_id,
    drains,                      \* history: unsuccessful drains per radiox id
    transient_run,               \* history: /force_queue drains in a row that
                                 \* ended in a transient error, per radiox id
    op,                          \* the last operation of the engine
    calls,                       \* the outbound calls of the last operation
    service_state,               \* 'initializing', 'playing', 'paused', 'error'
    paused_reason,
    state_history,               \* the entries (state, reason), oldest first
    current_date,                \* the date of the daily cache files
    daily_added_songs,           \* the number of entries of the list
    daily_search_failures,       \* the number of entries of the list
    today,                       \* the date of the clock, in days
    period,                      \* the time of day against START_TIME, END_TIME
    last_summary_log_date,
    startup_email_sent,
    shutdown_summary_sent,
    pc,                          \* where each thread of the process is
    force_checks,                \* /admin/force_check ticks in progress
    sampled,                     \* history: a loop has read the clock this period
    startups,                    \* history: start notifications since the window
                                 \* was entered
    summaries,                   \* history: summaries triggered since the window
                                 \* was left
    delivered,                   \* the broadcast event delivered to the handlers
    handlers,                    \* where the tick and the listener are with it
    inserts,                     \* history: playlist_add_items calls made for it
    sweepers,                    \* where each thread that runs a sweep is in it
    drainers                     \* where each thread that runs a drain is in it

resolver_vars == <<title, catalog, artist_success_patterns, learned, resolution>>
playlist_vars == <<playlist, RECENTLY_ADDED_SPOTIFY_IDS>>
queue_vars == <<failed_search_queue, failed_queue_file, last_added_radiox_track_id, drains, transient_run>>
engine_vars == <<playlist_vars, queue_vars, op, calls>>
scheduler_vars == <<service_state, paused_reason, state_history, current_date, daily_added_songs, daily_search_failures, today, period, last_summary_log_date, startup_email_sent, shutdown_summary_sent, pc, force_checks, sampled, startups, summaries>>
delivery_vars == <<delivered, handlers, inserts>>
worker_vars == <<sweepers, drainers>>
control_vars == <<scheduler_vars, delivery_vars, worker_vars>>
vars == <<sp, resolver_vars, engine_vars, control_vars>>

NoOp == [name |-> "none"]

NoDrains == <<>>

QueueIdle ==
    /\ failed_search_queue = <<>>
    /\ failed_queue_file = <<>>
    /\ last_added_radiox_track_id = NONE
    /\ drains = NoDrains
    /\ transient_run = NoDrains

\* The scheduler before any thread of it has run: the state __init__ leaves.
SchedulerIdle ==
    /\ service_state = "initializing"
    /\ paused_reason = ""
    /\ state_history = <<[state |-> "initializing", reason |-> ""]>>
    /\ current_date = 0
    /\ daily_added_songs = 0
    /\ daily_search_failures = 0
    /\ today = 0
    /\ period = "window"
    /\ last_summary_log_date = -1
    /\ startup_email_sent = FALSE
    /\ shutdown_summary_sent = FALSE
    /\ pc = <<>>
    /\ force_checks = 0
    /\ sampled = FALSE
    /\ startups = 0
    /\ summaries = 0

\* No event is being handled.
NoDelivery == [radiox_id |-> NONE, track |-> NONE]
DeliveryIdle ==
    /\ delivered = NoDelivery
    /\ handlers = <<>>
    /\ inserts = 0

\* No thread is in a sweep or in a drain of its own.
WorkersIdle ==
    /\ sweepers = <<>>
    /\ drainers = <<>>

ControlIdle == SchedulerIdle /\ DeliveryIdle /\ WorkersIdle

EngineIdle ==
    /\ playlist = <<>>
    /\ RECENTLY_ADDED_SPOTIFY_IDS = <<>>
    /\ QueueIdle
    /\ op = NoOp
    /\ calls = <<>>

(***************************************************************************)
(* The resolver on its own: the feed delivers events of one artist, each   *)
(* is resolved once, on the tick path (search_song_on_spotify) or on the   *)
(* real-time path (search_song_on_spotify_smart), and is then dropped.     *)
(***************************************************************************)
\* Smart resolutions that may precede the one observed.
MaxLearn == 1

\* The catalogs for one event: any subset of the titles that can be searched
\* is present, and each title present has a track of its own.
TrackOf(t, c) ==
    LET order == <<t, cleaned_title_paren(t), cleaned_title_feat(t)>>
    IN IF \E i \in 1..3 : order[i] = c
       THEN CHOOSE i \in 1..3 : order[i] = c /\ \A j \in 1..(i - 1) : order[j] # c
       ELSE 4
Catalogs(t) ==
    LET cands == Candidates(t)
    IN {[c \in cands |-> IF c \in S THEN TrackOf(t, c) ELSE NONE] : S \in SUBSET cands}

Idle == [path |-> "idle"]
NoTitle == <<>>
NoCatalog == <<>>

ResolveInit ==
    /\ ControlIdle
    /\ sp = TRUE
    /\ title \in Titles
    /\ catalog \in Catalogs(title)
    /\ artist_success_patterns = NoPatterns
    /\ learned = 0
    /\ resolution = Idle
    /\ EngineIdle

\* The callers of search_song_on_spotify: process_main_cycle (a fresh event
\* with its radiox id), process_failed_search_queue (a retry, no id) and
\* run_startup_diagnostics (no id, no retry).
TickCallers ==
    {[radiox_id |-> 1, is_retry |-> FALSE],
     [radiox_id |-> NONE, is_retry |-> TRUE],
     [radiox_id |-> NONE, is_retry |-> FALSE]}

\* search_song_on_spotify resolves the event for one of its callers.
ResolveTick ==
    /\ resolution = Idle
    /\ \E caller \in TickCallers :
       \E r \in search_song_on_spotify(sp, title, caller.radiox_id, caller.is_retry, catalog) :
             resolution' = [path |-> "tick", order |-> <<"original">>,
                            fresh |-> queueable(caller.radiox_id, caller.is_retry),
                            searched |-> r.searched, ret |-> r.ret,
                            raised |-> r.raised, fault |-> r.fault,
                            failures |-> IF r.failure THEN 1 ELSE 0]
    /\ UNCHANGED <<control_vars, sp, title, catalog, artist_success_patterns, learned, engine_vars>>

\* _process_song_immediately resolves the event (always with its radiox id).
ResolveSmart ==
    /\ resolution = Idle
    /\ learned <= MaxLearn
    /\ \E r \in search_song_on_spotify_smart(sp, title, 1, FALSE, catalog, artist_success_patterns) :
             /\ resolution' = [path |-> "smart", fresh |-> TRUE,
                               order |-> get_optimal_search_order(artist_success_patterns),
                               searched |-> r.searched, ret |-> r.ret,
                               raised |-> r.raised, fault |-> r.fault,
                               failures |-> r.inner_failures + (IF r.failure THEN 1 ELSE 0)]
             /\ artist_success_patterns' = r.patterns
    /\ learned' = learned + 1
    /\ UNCHANGED <<control_vars, sp, title, catalog, engine_vars>>

\* The event is dropped once it has been handled (events are not kept).
EventDone ==
    /\ resolution # Idle
    /\ resolution.path = "smart"
    /\ learned <= MaxLearn
    /\ title' = NoTitle
    /\ catalog' = NoCatalog
    /\ resolution' = [path |-> "done"]
    /\ UNCHANGED <<control_vars, sp, artist_success_patterns, learned, engine_vars>>

\* The feed delivers the next event of the artist.
NextEvent ==
    /\ resolution = [path |-> "done"]
    /\ title' \in Titles
    /\ catalog' \in Catalogs(title')
    /\ resolution' = Idle
    /\ UNCHANGED <<control_vars, sp, artist_success_patterns, learned, engine_vars>>

ResolveNext == ResolveTick \/ ResolveSmart \/ EventDone \/ NextEvent

SpecResolve == ResolveInit /\ [][ResolveNext]_vars

(***************************************************************************)
(* Properties of the resolver.                                             *)
(***************************************************************************)
Resolved == resolution # Idle /\ resolution.path \in {"tick", "smart"}

\* The title of the event without its parentheticals, when that is a rewrite
\* of its own (not empty, not the raw title).
ParenRewrite == cleaned_title_paren(title)
HasParenRewrite == ParenRewrite # <<>> /\ ParenRewrite # title

\* The last resolution made no search that faulted, returned at the first
\* title found and searched nothing after it: one search when the raw title
\* is in the catalog, two when it is not and the title without parentheses is.
ShortCircuit ==
    resolution.fault = 0 =>
        /\ catalog[title] # NONE =>
              resolution.searched = <<title>> /\ resolution.ret = catalog[title]
        /\ (catalog[title] = NONE /\ HasParenRewrite /\ catalog[ParenRewrite] # NONE) =>
              /\ resolution.searched = <<title, ParenRewrite>>
              /\ resolution.ret = catalog[ParenRewrite]
        /\ resolution.ret # NONE =>
              /\ resolution.searched # <<>>
              /\ resolution.ret = catalog[resolution.searched[Len(resolution.searched)]]
              /\ \A i \in 1..(Len(resolution.searched) - 1) :
                    catalog[resolution.searched[i]] = NONE

\* C9 (as amended): search_song_on_spotify, and search_song_on_spotify_smart
\* while the strategy order of the artist starts with 'original', returns the
\* track of the first rewrite that matches and searches nothing after it:
\* exactly 1 search when the raw title matches, exactly 2 when it does not and
\* the title without parentheses does.
C9_ShortCircuitRawFirst ==
    (Resolved /\ resolution.order[1] = "original") => ShortCircuit

\* C9, witness: a smart resolution with the order starting with 'original'
\* found the title without parentheses at its second search.
C9_Witness ==
    /\ Resolved
    /\ resolution.path = "smart"
    /\ resolution.order[1] = "original"
    /\ resolution.fault = 0
    /\ catalog[title] = NONE
    /\ HasParenRewrite
    /\ resolution.searched = <<title, ParenRewrite>>
    /\ resolution.ret = catalog[ParenRewrite]
    /\ resolution.ret # NONE

\* C9 (as stated): every resolution, on either path, returns at the first
\* rewrite that matches after exactly 1 search when the raw title matches and
\* exactly 2 when it does not and the title without parentheses does.
C9_ShortCircuitAlways == Resolved => ShortCircuit

\* C10 (as stated): when a search call of a resolution faults, the resolution
\* returns (it does not raise) and the faulted search is its last one, on the
\* tick path and on the smart path.
C10_TransientReturnsAtOnce ==
    (Resolved /\ resolution.fault # 0) =>
        /\ ~resolution.raised
        /\ resolution.fault = Len(resolution.searched)

\* C21: a resolution of a fresh event whose searches all end without a match
\* (none faults, nothing is returned) adds exactly one record to the daily
\* failures, on the tick path and on the smart path.
C21_NotFoundRecordedOnce ==
    (Resolved /\ resolution.fresh /\ resolution.fault = 0 /\ resolution.ret = NONE)
        => resolution.failures = 1

\* C32: in one resolution, on the tick path or on the real-time path, no two
\* search calls use titles equal up to case, and at most three calls are made.
C32_NoTitleSearchedTwice ==
    Resolved =>
        /\ \A i, j \in DOMAIN resolution.searched :
               i # j => Lower(resolution.searched[i]) # Lower(resolution.searched[j])
        /\ Len(resolution.searched) <= 3

(***************************************************************************)
(* The strategy order of the smart search: the events of one artist are    *)
(* resolved on the real-time path one after the other, each resolution     *)
(* updating the success rates the next one is ordered by.  The titles are  *)
(* long enough to carry a parenthetical and a "feat." at once.             *)
(***************************************************************************)
\* The titles of these events have OrderTitleLen tokens, none of them blank.
OrderTitleLen == 4

OrderTitles ==
    {t \in SeqsUpTo(TitleTokens \ {" "}, OrderTitleLen) : Len(t) = OrderTitleLen}

OrderInit ==
    /\ ControlIdle
    /\ sp = TRUE
    /\ title \in OrderTitles
    /\ catalog \in Catalogs(title)
    /\ artist_success_patterns = NoPatterns
    /\ learned = 0
    /\ resolution = Idle
    /\ EngineIdle

\* The listener receives the next event of the artist.
OrderNextEvent ==
    /\ resolution = [path |-> "done"]
    /\ title' \in OrderTitles
    /\ catalog' \in Catalogs(title')
    /\ resolution' = Idle
    /\ UNCHANGED <<control_vars, sp, artist_success_patterns, learned, engine_vars>>

OrderNext == ResolveSmart \/ EventDone \/ OrderNextEvent

SpecOrder == OrderInit /\ [][OrderNext]_vars

\* The smart search of the event in the default order, with no learned rates,
\* finds a track when none of its searches faults.
DefaultOrderFinds ==
    \E r \in smart_from(sp, StrategyNames, 1, title, 1, FALSE, catalog, NoPatterns) :
       r.fault = 0 /\ r.ret # NONE

\* The titles a smart search can try: the three rewrites of the title
\* (itself, without parentheses, without brackets and feat.) and the rewrites
\* of these by the same rules.
RewritesOf(t) == {t, cleaned_title_paren(t), cleaned_title_feat(t)}
NestedRewrites(t) == UNION {RewritesOf(u) : u \in RewritesOf(t)}

SmartResolved == Resolved /\ resolution.path = "smart" /\ resolution.fault = 0

ResolverIdle ==
    /\ title = NoTitle
    /\ catalog = NoCatalog
    /\ artist_success_patterns = NoPatterns
    /\ learned = 0
    /\ resolution = Idle

Playlists == SeqsUpTo(CatalogIds, MaxPlaylistLen)

\* The playlist is whatever its owner left; RECENTLY_ADDED_SPOTIFY_IDS is what
\* load_state found in recent_tracks.json.
PlaylistInit ==
    /\ ControlIdle
    /\ sp \in BOOLEAN
    /\ ResolverIdle
    /\ QueueIdle
    /\ playlist \in Playlists
    /\ RECENTLY_ADDED_SPOTIFY_IDS \in SeqsUpTo(CatalogIds, RecentMaxLen)
    /\ op = NoOp
    /\ calls = <<>>

\* add_song_to_playlist is called for a track its caller has found.
AddSong ==
    /\ \E spotify_track_id \in CatalogIds :
       \E r \in add_song_results(sp, spotify_track_id, playlist, RECENTLY_ADDED_SPOTIFY_IDS) :
          /\ Len(r.playlist) <= MaxPlaylistLen
          /\ playlist' = r.playlist
          /\ RECENTLY_ADDED_SPOTIFY_IDS' = r.recent
          /\ op' = [name |-> "add", track |-> spotify_track_id, result |-> r.result,
                    size_ok |-> r.size_ok, inserted |-> r.inserted]
          /\ calls' = r.calls
    /\ UNCHANGED <<control_vars, sp, resolver_vars, queue_vars>>

\* check_and_remove_duplicates runs (from the tick or from /force_duplicates).
Sweep ==
    /\ \E fail_at \in 0..sweep_calls(playlist) :
          LET r == check_and_remove_duplicates(sp, playlist, RECENTLY_ADDED_SPOTIFY_IDS, fail_at)
          IN /\ playlist' = r.playlist
             /\ RECENTLY_ADDED_SPOTIFY_IDS' = r.recent
             /\ op' = [name |-> "sweep", failed |-> r.failed, handled |-> r.handled,
                       ran |-> sp]
             /\ calls' = sweep_calls_made(sp, playlist, fail_at)
    /\ UNCHANGED <<control_vars, sp, resolver_vars, queue_vars>>

\* The owner of the playlist adds a track by hand.
ExternalAdd ==
    /\ Len(playlist) < MaxPlaylistLen
    /\ \E c \in CatalogIds : playlist' = Append(playlist, c)
    /\ op' = [name |-> "external_add"]
    /\ calls' = <<>>
    /\ UNCHANGED <<control_vars, sp, resolver_vars, queue_vars, RECENTLY_ADDED_SPOTIFY_IDS>>

\* The owner of the playlist removes a track by hand.
ExternalRemove ==
    /\ \E i \in DOMAIN playlist :
          playlist' = SubSeq(playlist, 1, i - 1) \o SubSeq(playlist, i + 1, Len(playlist))
    /\ op' = [name |-> "external_remove"]
    /\ calls' = <<>>
    /\ UNCHANGED <<control_vars, sp, resolver_vars, queue_vars, RECENTLY_ADDED_SPOTIFY_IDS>>

PlaylistNext == AddSong \/ Sweep \/ ExternalAdd \/ ExternalRemove

SpecPlaylist == PlaylistInit /\ [][PlaylistNext]_vars

(***************************************************************************)
(* Properties of the playlist.                                             *)
(***************************************************************************)
\* C1: a call of add_song_to_playlist for a track that is among
\* RECENTLY_ADDED_SPOTIFY_IDS returns True without any call to the catalog: it
\* makes no insert and leaves the playlist and the recent IDs as they were.
C1_IdempotentInsert ==
    [][(/\ op'.name = "add"
        /\ sp
        /\ op'.track \in Range(RECENTLY_ADDED_SPOTIFY_IDS))
       => (/\ op'.result
           /\ ~op'.inserted
           /\ calls' = <<>>
           /\ playlist' = playlist
           /\ RECENTLY_ADDED_SPOTIFY_IDS' = RECENTLY_ADDED_SPOTIFY_IDS)]_vars

\* C1, witness: the track was inserted and recorded by an earlier call, and
\* the last call for it returned True without a call.
C1_Witness ==
    /\ op.name = "add"
    /\ op.result
    /\ ~op.inserted
    /\ calls = <<>>
    /\ op.track \in Range(RECENTLY_ADDED_SPOTIFY_IDS)
    /\ op.track \in Range(playlist)

\* C2 (as stated): after an insert that succeeded and whose capacity check
\* succeeded, the playlist has at most MAX_PLAYLIST_SIZE tracks, whatever the
\* playlist was before.
C2_SizeCap ==
    (op.name = "add" /\ op.inserted /\ op.size_ok) =>
        Len(playlist) <= MAX_PLAYLIST_SIZE

\* A step of the sweep with the Spotify client set.
SweepStep == op'.name = "sweep" /\ op'.ran

GovernorStep == op'.name = "add" /\ calls' # <<>>

\* The playlist as manage_playlist_size left it in this step: the playlist
\* after the call without the track the call has inserted.
AfterGovernor ==
    IF op'.inserted THEN SubSeq(playlist', 1, Len(playlist') - 1) ELSE playlist'

\* C22: manage_playlist_size removes nothing from a playlist under the limit;
\* at or over the limit it removes exactly one item, the one at position 0,
\* and every other item stays.
C22_GovernorEvictsOneItem ==
    [][GovernorStep =>
          /\ Len(playlist) < MAX_PLAYLIST_SIZE => AfterGovernor = playlist
          /\ (Len(playlist) >= MAX_PLAYLIST_SIZE /\ op'.size_ok) =>
                AfterGovernor = Tail(playlist)]_vars

\* The calls of manage_playlist_size, however they end, on the playlist pl.
CapacityChecks(pl) == {manage_playlist_size(pl, o).calls : o \in SizeOutcomes}

\* The i-th call of this step is an insert that follows a capacity check of
\* the playlist, with only the read of the track's details (sp.track, line
\* 965) between the two.
InsertAfterCheck(i) ==
    /\ i >= 3
    /\ calls'[i - 1] = "track"
    /\ SubSeq(calls', 1, i - 2) \in CapacityChecks(playlist)

\* C23 (as amended): every insert add_song_to_playlist makes (for the tick,
\* the drain of the retry queue and the real-time listener) follows a
\* capacity check in the same call; the re-insert of a sweep follows the
\* removal of every occurrence of its track, with no capacity check.
C23_InsertAfterCapacityCheck ==
    [][\A i \in DOMAIN calls' :
          calls'[i] = "playlist_add_items" =>
             /\ op'.name = "add" => InsertAfterCheck(i)
             /\ op'.name = "sweep" =>
                   calls'[i - 1] = "playlist_remove_all_occurrences_of_items"]_vars

\* C23, witness: add_song_to_playlist has inserted a track after its
\* capacity check.
C23_Witness ==
    /\ op.name = "add"
    /\ op.inserted
    /\ calls = <<"playlist_items", "track", "playlist_add_items">>

\* C23 (as stated): every insert, the re-insert of a sweep included, follows
\* a capacity check.
C23_EveryInsertAfterCheck ==
    [][\A i \in DOMAIN calls' :
          calls'[i] = "playlist_add_items" => InsertAfterCheck(i)]_vars

\* C24: when manage_playlist_size has failed (its read or its removal
\* raised), add_song_to_playlist goes on from the playlist as it was: it reads
\* the track's details and, unless that read fails, attempts the insert; an
\* insert that succeeds puts the track at the end of the playlist.
C24_GovernorFailureNotFatal ==
    [][(op'.name = "add" /\ ~op'.size_ok) =>
          \E c \in CapacityChecks(playlist) :
             /\ Len(calls') > Len(c)
             /\ SubSeq(calls', 1, Len(c)) = c
             /\ SubSeq(calls', Len(c) + 1, Len(calls'))
                   \in {<<"track">>, <<"track", "playlist_add_items">>}
             /\ AfterGovernor = playlist
             /\ op'.inserted => playlist' = Append(playlist, op'.track)]_vars

\* C24, witness: a track has been inserted by a call whose governor failed on
\* its removal, into a playlist that stays over the limit.
C24_Witness ==
    /\ op.name = "add"
    /\ ~op.size_ok
    /\ op.inserted
    /\ op.result
    /\ calls = <<"playlist_items", "playlist_remove_all_occurrences_of_items", "track", "playlist_add_items">>
    /\ Len(playlist) > MAX_PLAYLIST_SIZE

\* C27 (as amended): after a sweep, the last RecentMaxLen of the tracks it
\* has re-inserted are among RECENTLY_ADDED_SPOTIFY_IDS, the one re-inserted
\* last being the newest of them, so that add_song_to_playlist skips them
\* (C1); the tracks the sweep re-inserted before those have been dropped
\* from the deque again by the later appends of the same sweep.
C27_SweepRecordsReinserted ==
    [][SweepStep =>
          LET dups == duplicated_ids(playlist)
              h == op'.handled
              recent == RECENTLY_ADDED_SPOTIFY_IDS'
          IN /\ h <= Len(dups)
             /\ \A i \in 1..h :
                   /\ h - i < RecentMaxLen => recently_added(dups[i], recent)
                   /\ (h - i >= RecentMaxLen /\ dups[i] \notin {dups[j] : j \in (i + 1)..h})
                         => ~recently_added(dups[i], recent)
             /\ h >= 1 => recent[Len(recent)] = dups[h]]_vars

\* C27, witness: a sweep has re-inserted two duplicated tracks, and the one
\* re-inserted last is recently added.
C27_Witness ==
    /\ op.name = "sweep"
    /\ op.ran
    /\ ~op.failed
    /\ op.handled = 2
    /\ playlist[Len(playlist)] = RECENTLY_ADDED_SPOTIFY_IDS[Len(RECENTLY_ADDED_SPOTIFY_IDS)]
    /\ playlist[Len(playlist) - 1] # playlist[Len(playlist)]

\* C27 (as stated): after a sweep, every track it has re-inserted is among
\* RECENTLY_ADDED_SPOTIFY_IDS.
C27_EveryReinsertedIsRecent ==
    [][SweepStep =>
          \A i \in 1..op'.handled :
             recently_added(duplicated_ids(playlist)[i], RECENTLY_ADDED_SPOTIFY_IDS')]_vars

\* C28: when the removal or the re-insert of one duplicated track fails in a
\* sweep, the sweep goes on: every duplicated track after that one is handled
\* and occurs once after the sweep.
C28_SweepGoesOnAfterFailure ==
    [][(SweepStep /\ op'.failed /\ Len(calls') > 1) =>
          LET dups == duplicated_ids(playlist)
          IN \A i \in DOMAIN dups :
                i > op'.handled + 1 => Count(playlist', dups[i]) = 1]_vars

\* after is before with x recorded, first in first out: x is the newest
\* entry, the entries of before follow in their order, and the oldest of them
\* has gone if before was full.
Recorded(before, x, after) ==
    /\ after # <<>>
    /\ after[Len(after)] = x
    /\ Len(after) = (IF Len(before) < RecentMaxLen THEN Len(before) + 1 ELSE RecentMaxLen)
    /\ \A i \in 1..(Len(after) - 1) :
          after[i] = before[Len(before) - (Len(after) - 1) + i]

\* after is before with the tracks dups[k..h] recorded one after the other.
RECURSIVE RecordedAll(_, _, _, _, _)
RecordedAll(before, dups, k, h, after) ==
    IF k > h THEN after = before
    ELSE \E mid \in SeqsUpTo(CatalogIds, RecentMaxLen) :
            Recorded(before, dups[k], mid) /\ RecordedAll(mid, dups, k + 1, h, after)

C36_SweepKeepsEveryTrack ==
    [][SweepStep => Range(playlist) \subseteq Range(playlist')]_vars

(***************************************************************************)
(* The failed-search queue.  Its items come from failed_queue.json: nothing *)
(* in the program appends a new item (add_to_failed_search_queue does not  *)
(* exist).  The events of the feed are plays of one song.                  *)
(***************************************************************************)
\* The radiox ids of the events are 1..NumSourceIds.
NumSourceIds == 2
\* failed_search_queue is a deque(maxlen=5) in the program.
QueueMaxLen == 2

SourceIds == 1..NumSourceIds
EventTitle == <<"a">>

RetryItem(radiox_id, attempts) ==
    [title |-> EventTitle, radiox_id |-> radiox_id, attempts |-> attempts]

QueuedIds(queue) == {queue[i].radiox_id : i \in DOMAIN queue}

\* How a resolution ended, for its caller.
Outcome(r) ==
    IF r.ret # NONE THEN "found"
    ELSE IF r.fault # 0 THEN "transient"
    ELSE IF r.searched = <<>> THEN "no_client"
    ELSE "not_found"

\* The courses of every search the queue model makes, tabulated once.
event_courses ==
    [client \in BOOLEAN, original_title \in {EventTitle},
     radiox_id \in SourceIds \cup {NONE}, is_retry \in BOOLEAN |->
        UNION {search_song_on_spotify(client, original_title, radiox_id, is_retry, cat) :
                  cat \in Catalogs(original_title)}]

\* Every course of a search for the title, over every catalog.
search_courses(client, original_title, radiox_id, is_retry) ==
    event_courses[client, original_title, radiox_id, is_retry]

\* A re-queue test that lets the item have one attempt more.
retry_allowed_once_more(item) == item.attempts <= MAX_FAILED_SEARCH_ATTEMPTS

\* item['attempts'] < MAX_FAILED_SEARCH_ATTEMPTS
retry_allowed(item) == item.attempts < MAX_FAILED_SEARCH_ATTEMPTS

\* A drain that leaves the head item in the queue.
peek_only(queue) == queue

\* self.failed_search_queue.popleft(): what is left of the queue.
popleft(queue) == Tail(queue)

NoDrain == [outcome |-> "none"]

\* process_failed_search_queue: the set of the ways it can end.
process_failed_search_queue(client, queue, pl, recent) ==
    IF queue = <<>>
    THEN {[queue |-> queue, playlist |-> pl, recent |-> recent, drain |-> NoDrain]}
    ELSE LET item == [Head(queue) EXCEPT !.attempts = @ + 1]
             rest == popleft(queue)
             done(outcome, requeued, failures) ==
                 [outcome |-> outcome, radiox_id |-> item.radiox_id,
                  attempts |-> item.attempts, requeued |-> requeued,
                  failures |-> failures]
         IN UNION {
              IF r.ret # NONE
              THEN {[queue |-> rest, playlist |-> a.playlist, recent |-> a.recent,
                     drain |-> done("found", FALSE, <<>>)]
                    : a \in add_song_effects(client, r.ret, pl, recent)}
              ELSE IF retry_allowed(item)
              THEN {[queue |-> deque_append(rest, item, QueueMaxLen),
                     playlist |-> pl, recent |-> recent,
                     drain |-> done(Outcome(r), TRUE, <<>>)]}
              ELSE {[queue |-> rest, playlist |-> pl, recent |-> recent,
                     drain |-> done(Outcome(r), FALSE, <<"max_retries">>)]}
              : r \in search_courses(client, item.title, NONE, TRUE)}

\* A save that writes nothing.
save_state_skipped(queue, file) == file

\* save_state: the new content of failed_queue.json.
save_state(queue, file) == queue

\* load_state: the queue read from failed_queue.json.
load_state(file) == deque_load(file, QueueMaxLen)

\* process_main_cycle up to line 1657: the event polled (radiox_id; NONE when
\* the feed has nothing) is resolved and its track inserted.
main_cycle_event(client, radiox_id, last_added, queue, pl, recent) ==
    LET result(outcome, raised, song_added, new_last, new_pl, new_recent, steps) ==
            [outcome |-> outcome, raised |-> raised, song_added |-> song_added,
             last_added |-> new_last, queue |-> queue, playlist |-> new_pl,
             recent |-> new_recent, steps |-> steps]
    IN IF radiox_id = NONE
       THEN {result("none", FALSE, FALSE, last_added, pl, recent, <<>>)}
       ELSE IF radiox_id = last_added
       THEN {result("skipped", FALSE, FALSE, last_added, pl, recent, <<>>)}
       ELSE UNION {
              IF r.raised
              THEN {result(Outcome(r), TRUE, FALSE, last_added, pl, recent,
                           <<"resolution">>)}
              ELSE IF r.ret # NONE
              THEN {result("found", FALSE, a.result, radiox_id, a.playlist, a.recent,
                           <<"resolution", "insertion">>)
                    : a \in add_song_effects(client, r.ret, pl, recent)}
              ELSE {result(Outcome(r), FALSE, FALSE, radiox_id, pl, recent,
                           <<"resolution">>)}
              : r \in search_courses(client, EventTitle, radiox_id, FALSE)}

\* The sweep of a tick, when it is due.
main_cycle_sweep(client, pl, recent) ==
    {[playlist |-> pl, recent |-> recent, steps |-> <<>>]}
    \cup {LET w == check_and_remove_duplicates(client, pl, recent, fail_at)
          IN [playlist |-> w.playlist, recent |-> w.recent, steps |-> <<"sweep">>]
          : fail_at \in 0..sweep_calls(pl)}

\* A tick that drains the queue before it looks at the event polled.
main_cycle_steps_drain_first(event_steps, drain_steps, sweep_steps) ==
    drain_steps \o event_steps \o sweep_steps

\* The steps of one process_main_cycle, in the order of its statements: the
\* event (lines 1643-1657), the drain (line 1659), the sweep (lines 1661-1663).
main_cycle_steps(event_steps, drain_steps, sweep_steps) ==
    event_steps \o drain_steps \o sweep_steps

\* process_main_cycle: the set of the ways a tick can end.  An error raised
\* by the resolution ends the tick where it is; otherwise the queue is drained
\* when a song was added or the clock is in its window, the sweep runs when it
\* is due and save_state writes the queue.
process_main_cycle(client, radiox_id, last_added, queue, file, pl, recent) ==
    UNION {
      IF e.raised
      THEN {[event |-> e, drain |-> NoDrain, queue |-> e.queue,
             file |-> file, playlist |-> e.playlist, recent |-> e.recent,
             steps |-> main_cycle_steps(e.steps, <<>>, <<>>)]}
      ELSE UNION {
             {[event |-> e, drain |-> d.drain, queue |-> d.queue,
               file |-> save_state(d.queue, file), playlist |-> w.playlist,
               recent |-> w.recent,
               steps |-> main_cycle_steps(e.steps,
                             IF d.drain # NoDrain THEN <<"drain">> ELSE <<>>,
                             w.steps)]
              : w \in main_cycle_sweep(client, d.playlist, d.recent)}
             : d \in UNION {
                   IF e.queue # <<>> /\ (e.song_added \/ in_window)
                   THEN process_failed_search_queue(client, e.queue, e.playlist, e.recent)
                   ELSE {[queue |-> e.queue, playlist |-> e.playlist,
                          recent |-> e.recent, drain |-> NoDrain]}
                   : in_window \in BOOLEAN}}
      : e \in main_cycle_event(client, radiox_id, last_added, queue, pl, recent)}

\* History: the unsuccessful drains of the item of each radiox id.
NoHistory == [id \in SourceIds |-> 0]
Drained(history, d) ==
    IF d = NoDrain \/ d.outcome = "found" THEN history
    ELSE [history EXCEPT ![d.radiox_id] = @ + 1]

\* History: the drains in a row, up to the last, that ended in a transient
\* error, for the item of each radiox id.
TransientRun(run, d) ==
    IF d = NoDrain THEN run
    ELSE [run EXCEPT ![d.radiox_id] = IF d.outcome = "transient" THEN @ + 1 ELSE 0]

\* The contents failed_queue.json can have at the start: items not yet
\* drained, one per radiox id.
RECURSIVE Distinct(_)
Distinct(ids) ==
    ids = <<>> \/ (Head(ids) \notin Range(Tail(ids)) /\ Distinct(Tail(ids)))
QueueFiles ==
    {[i \in DOMAIN ids |-> RetryItem(ids[i], 0)] :
        ids \in {q \in SeqsUpTo(SourceIds, QueueMaxLen) : Distinct(q)}}

QueueInit ==
    /\ ControlIdle
    /\ sp = TRUE
    /\ ResolverIdle
    /\ playlist = <<>>
    /\ RECENTLY_ADDED_SPOTIFY_IDS = <<>>
    /\ failed_queue_file \in QueueFiles
    /\ failed_search_queue = load_state(failed_queue_file)
    /\ last_added_radiox_track_id = NONE
    /\ drains = NoHistory
    /\ transient_run = NoHistory
    /\ op = NoOp
    /\ calls = <<>>

\* One tick: process_main_cycle, from the run loop or from /admin/force_check.
Tick ==
    /\ \E radiox_id \in {NONE} \cup SourceIds :
       \E t \in process_main_cycle(sp, radiox_id, last_added_radiox_track_id, failed_search_queue, failed_queue_file, playlist, RECENTLY_ADDED_SPOTIFY_IDS) :
          /\ failed_search_queue' = t.queue
          /\ failed_queue_file' = t.file
          /\ playlist' = t.playlist
          /\ RECENTLY_ADDED_SPOTIFY_IDS' = t.recent
          /\ last_added_radiox_track_id' = t.event.last_added
          /\ drains' = Drained(drains, t.drain)
          /\ op' = [name |-> "tick", radiox_id |-> radiox_id,
                    outcome |-> t.event.outcome, raised |-> t.event.raised,
                    drain |-> t.drain, steps |-> t.steps]
    /\ calls' = <<>>
    /\ UNCHANGED <<control_vars, sp, resolver_vars, transient_run>>

\* /force_queue or /admin/retry_failed: process_failed_search_queue on its own.
ForceQueue ==
    /\ \E d \in process_failed_search_queue(sp, failed_search_queue, playlist, RECENTLY_ADDED_SPOTIFY_IDS) :
          /\ failed_search_queue' = d.queue
          /\ playlist' = d.playlist
          /\ RECENTLY_ADDED_SPOTIFY_IDS' = d.recent
          /\ drains' = Drained(drains, d.drain)
          /\ transient_run' = TransientRun(transient_run, d.drain)
          /\ op' = [name |-> "drain", drain |-> d.drain]
    /\ calls' = <<>>
    /\ UNCHANGED <<control_vars, sp, resolver_vars, failed_queue_file, last_added_radiox_track_id>>

\* The process exits (atexit runs save_state) and is started again:
\* authenticate_spotify (which succeeds again), then load_state.
Restart ==
    /\ failed_queue_file' = save_state(failed_search_queue, failed_queue_file)
    /\ failed_search_queue' = load_state(failed_queue_file')
    /\ RECENTLY_ADDED_SPOTIFY_IDS' = deque_load(RECENTLY_ADDED_SPOTIFY_IDS, RecentMaxLen)
    /\ last_added_radiox_track_id' = NONE
    /\ op' = [name |-> "restart"]
    /\ calls' = <<>>
    /\ UNCHANGED <<control_vars, sp, resolver_vars, playlist, drains, transient_run>>

\* The scheduled cycle, with restarts.
QueueNext == Tick \/ Restart

SpecQueue == QueueInit /\ [][QueueNext]_vars

\* The queue drained on request, with restarts.
DrainNext == ForceQueue \/ Restart

SpecDrain == QueueInit /\ [][DrainNext]_vars

(***************************************************************************)
(* Properties of the failed-search queue.                                  *)
(***************************************************************************)
EntriesFor(queue, radiox_id) ==
    Cardinality({i \in DOMAIN queue : queue[i].radiox_id = radiox_id})

\* The step is a drain of the item of radiox_id that found its track.
DrainFound(radiox_id) ==
    /\ op'.name \in {"tick", "drain"}
    /\ op'.drain # NoDrain
    /\ op'.drain.outcome = "found"
    /\ op'.drain.radiox_id = radiox_id

AttemptsCounted ==
    /\ \A id \in SourceIds : drains[id] <= MAX_FAILED_SEARCH_ATTEMPTS
    /\ \A i \in DOMAIN failed_search_queue :
          /\ failed_search_queue[i].attempts = drains[failed_search_queue[i].radiox_id]
          /\ drains[failed_search_queue[i].radiox_id] < MAX_FAILED_SEARCH_ATTEMPTS

\* C4: an item is queued only while it has had fewer than
\* MAX_FAILED_SEARCH_ATTEMPTS unsuccessful drains, its attempts counter being
\* the number of them, across ticks and restarts; and an item leaves the queue
\* only at a drain that finds its track or at its
\* MAX_FAILED_SEARCH_ATTEMPTS-th unsuccessful drain.  So it is removed after
\* exactly that many unsuccessful drains and is never queued again.
C4_BoundedRetry ==
    /\ []AttemptsCounted
    /\ [][\A id \in QueuedIds(failed_search_queue) \ QueuedIds(failed_search_queue') :
             drains'[id] = MAX_FAILED_SEARCH_ATTEMPTS \/ DrainFound(id)]_vars

\* An item was discarded at its last unsuccessful drain, and the process has
\* been restarted since without the item coming back.
C4_Witness ==
    /\ op.name = "restart"
    /\ \E id \in SourceIds :
          /\ drains[id] = MAX_FAILED_SEARCH_ATTEMPTS
          /\ id \notin QueuedIds(failed_search_queue)
          /\ failed_search_queue # <<>>

\* The last step drained an item, the search ended in a transient error, and
\* so did every earlier drain of the item.
TransientDrain ==
    /\ op.name = "drain"
    /\ op.drain # NoDrain
    /\ op.drain.outcome = "transient"
    /\ transient_run[op.drain.radiox_id] = drains[op.drain.radiox_id]

\* C5: when the drains of an item all end in a transient error, the third
\* drain (MAX_FAILED_SEARCH_ATTEMPTS = 3) discards the item and records the
\* failure; the first and the second put the item back at the tail of the
\* queue and record nothing.
C5_ThreeTransientDrains ==
    TransientDrain =>
       LET id == op.drain.radiox_id
           k == transient_run[id]
       IN /\ k \in 1..3
          /\ k = 3 => /\ id \notin QueuedIds(failed_search_queue)
                      /\ op.drain.failures = <<"max_retries">>
          /\ k < 3 => /\ failed_search_queue # <<>>
                      /\ failed_search_queue[Len(failed_search_queue)] = RetryItem(id, k)
                      /\ op.drain.failures = <<>>

\* The third drain in a row of an item has ended in a transient error.
C5_Witness ==
    /\ TransientDrain
    /\ transient_run[op.drain.radiox_id] = 3
    /\ op.drain.failures = <<"max_retries">>
    /\ op.drain.radiox_id \notin QueuedIds(failed_search_queue)

FoundTracks == {c[t] : c \in Catalogs(EventTitle), t \in Candidates(EventTitle)} \ {NONE}

\* C25: a drain on request that finds the track of the head item hands it to
\* add_song_to_playlist (a track recently added is not inserted; otherwise
\* the capacity check, then the insert) and takes the item out of the queue,
\* the others keeping their order; and no step, a restart included, puts into
\* the queue an item of an id that is not in it.
C25_FoundDrainInsertsAndDiscards ==
    [][/\ QueuedIds(failed_search_queue') \subseteq QueuedIds(failed_search_queue)
       /\ (op'.name = "drain" /\ op'.drain # NoDrain /\ op'.drain.outcome = "found") =>
             /\ op'.drain.radiox_id = Head(failed_search_queue).radiox_id
             /\ failed_search_queue' = Tail(failed_search_queue)
             /\ ~op'.drain.requeued
             /\ \E track \in FoundTracks :
                   IF track \in Range(RECENTLY_ADDED_SPOTIFY_IDS)
                   THEN /\ playlist' = playlist
                        /\ RECENTLY_ADDED_SPOTIFY_IDS' = RECENTLY_ADDED_SPOTIFY_IDS
                   ELSE \E s \in SizeOutcomes :
                           LET managed == manage_playlist_size(playlist, s).playlist
                           IN \/ /\ playlist' = Append(managed, track)
                                 /\ track \in Range(RECENTLY_ADDED_SPOTIFY_IDS')
                              \/ playlist' = managed]_vars

\* C25, witness: after a drain that found and inserted the track of an item,
\* and a restart, the item is not in the queue and another one is.
C25_Witness ==
    /\ op.name = "restart"
    /\ playlist # <<>>
    /\ Len(failed_search_queue) = 1
    /\ drains[failed_search_queue[1].radiox_id] > 0
    /\ \E id \in SourceIds \ QueuedIds(failed_search_queue) : drains[id] = 0

\* The step is a drain on request of the head item.
DrainStep == op'.name = "drain" /\ op'.drain # NoDrain

\* C26: a drain that did not find the track of an item whose attempts, the
\* drain counted, are under MAX_FAILED_SEARCH_ATTEMPTS puts the item at the
\* tail of the queue, behind the other items in their order; so two drains in
\* a row never take the same item while another one is queued.
C26_RequeueAtTail ==
    [][DrainStep =>
          /\ (op'.drain.outcome # "found" /\ op'.drain.attempts < MAX_FAILED_SEARCH_ATTEMPTS) =>
                /\ op'.drain.requeued
                /\ failed_search_queue' =
                      Tail(failed_search_queue)
                      \o <<RetryItem(op'.drain.radiox_id, op'.drain.attempts)>>
                /\ op'.drain.attempts = Head(failed_search_queue).attempts + 1
          /\ (op.name = "drain" /\ op.drain # NoDrain /\ Len(failed_search_queue) >= 2) =>
                op'.drain.radiox_id # op.drain.radiox_id]_vars

\* C26, witness: two items have each been drained without success and put
\* back, the one drained last being at the tail.
C26_Witness ==
    /\ op.name = "drain"
    /\ op.drain # NoDrain
    /\ op.drain.requeued
    /\ Len(failed_search_queue) = 2
    /\ failed_search_queue[1].attempts >= 1
    /\ failed_search_queue[2] = RetryItem(op.drain.radiox_id, op.drain.attempts)

\* The drains keep being run: process_failed_search_queue is called again
\* and again, by the ticks or by the routes.
SpecDrainFair == QueueInit /\ [][DrainNext]_vars /\ WF_vars(ForceQueue)

C40_OccurrenceSearchedOnce ==
    [][(op'.name = "tick" /\ op'.radiox_id # NONE)
          => IF op'.radiox_id = last_added_radiox_track_id
             THEN /\ op'.outcome = "skipped"
                  /\ "resolution" \notin Range(op'.steps)
                  /\ "insertion" \notin Range(op'.steps)
                  /\ last_added_radiox_track_id' = last_added_radiox_track_id
             ELSE last_added_radiox_track_id' = op'.radiox_id]_vars

\* The order in which the spec lists the steps of a tick.
TickOrder == <<"resolution", "insertion", "drain", "sweep">>
StepRank(step) == CHOOSE i \in DOMAIN TickOrder : TickOrder[i] = step

TickStep == op'.name = "tick"

\* C31: the steps a tick has run are in the order resolution of the polled
\* event, its insertion, the drain of the retry queue, the sweep; an insertion
\* comes straight after the resolution that found its track, and no step runs
\* twice.
C31_TickStepOrder ==
    [][TickStep =>
         /\ \A i, j \in DOMAIN op'.steps :
                i < j => StepRank(op'.steps[i]) < StepRank(op'.steps[j])
         /\ Range(op'.steps) \subseteq Range(TickOrder)
         /\ "insertion" \in Range(op'.steps) => op'.steps[1] = "resolution"
         /\ ("drain" \in Range(op'.steps)) <=> (op'.drain # NoDrain)]_vars

\* C31, witness: a tick has run all four steps.
C31_Witness == op.name = "tick" /\ op.steps = TickOrder

\* C7: a tick that comes to enqueue the id of its event while the queue is
\* full goes on (the caller is not stopped), and the enqueue leaves the items
\* of the queue as they are, in their order.
C7_EnqueueOnFullQueue ==
    [][(/\ op'.name = "tick"
        /\ op'.outcome = "transient"
        /\ Len(failed_search_queue) = QueueMaxLen)
       => /\ ~op'.raised
          /\ op'.drain = NoDrain => failed_search_queue' = failed_search_queue]_vars

\* C8: after a tick whose event was resolved (not skipped) and whose
\* resolution ended in a transient error or found nothing, an item of the
\* event's radiox id is in the queue, unless the same tick has drained it.
C8_FailureEnqueued ==
    [][(/\ op'.name = "tick"
        /\ op'.outcome \in {"transient", "not_found"})
       => \/ RetryItem(op'.radiox_id, 0) \in Range(failed_search_queue')
          \/ /\ op'.drain # NoDrain
             /\ op'.drain.radiox_id = op'.radiox_id]_vars

(***************************************************************************)
(* The scheduler: initialize_bot, run_bot.main, the loop of run and the    *)
(* admin routes that act on it.  What a tick does to the playlist and the  *)
(* queue is the action Tick above; here a tick is only in progress or not. *)
(***************************************************************************)
\* The day rollovers of the clock.
MaxDays == 1
\* The /admin/force_check ticks that run at the same time.
MaxForceChecks == 1
\* The notifications counted in startups and in summaries.
EffectCap == 2

\* Before START_TIME, between START_TIME and END_TIME, after END_TIME.
Periods == {"night", "window", "evening"}

\* initialize_bot, run_bot.main, and the monitoring thread of initialize_bot.
Threads == {"init", "main", "monitor"}
\* The threads that execute RadioXBot.run.
Runners == {"main", "monitor"}
LoopPcs == {"top", "startup", "summary", "in_tick", "sleep"}

Bump(n) == IF n < EffectCap THEN n + 1 ELSE n

\* The entries state_history keeps (50 in the program).
HistoryMaxLen == 2
\* The entries the daily lists are counted up to.
DailyCap == 1

\* history[-HistoryMaxLen:]
last_entries(history, n) ==
    IF Len(history) <= n THEN history
    ELSE SubSeq(history, Len(history) - n + 1, Len(history))

\* update_service_state: the new service_state, paused_reason and
\* state_history.
update_service_state(old_state, old_reason, history, new_state, reason) ==
    IF new_state # old_state
    THEN [state |-> new_state, reason |-> reason,
          history |-> last_entries(Append(history, [state |-> new_state, reason |-> reason]),
                                   HistoryMaxLen)]
    ELSE [state |-> old_state, reason |-> old_reason, history |-> history]

\* check_and_update_daily_cache, at the start of a tick: on a new date the
\* lists are loaded from the files of that date, which do not exist yet.
check_and_update_daily_cache(date, now, added, failures) ==
    IF now # date
    THEN [date |-> now, added |-> 0, failures |-> 0]
    ELSE [date |-> date, added |-> added, failures |-> failures]

\* What a tick appends to the daily lists: with a client, at most one song
\* and one failure; without one, nothing.
TickDaily(client) ==
    IF client THEN {[added |-> a, failures |-> f] : a \in 0..1, f \in 0..1}
    ELSE {[added |-> 0, failures |-> 0]}
Capped(n) == IF n > DailyCap THEN DailyCap ELSE n

\* process_main_cycle, for the daily lists.
TickCounts ==
    \E t \in TickDaily(sp) :
       LET c == check_and_update_daily_cache(current_date, today, daily_added_songs, daily_search_failures)
       IN /\ current_date' = c.date
          /\ daily_added_songs' = Capped(c.added + t.added)
          /\ daily_search_failures' = Capped(c.failures + t.failures)

\* The process is started at any time of day, by gunicorn (initialize_bot
\* alone) or by run_bot.py, whose import of radiox_spotify starts
\* initialize_bot as well.
SchedulerInit ==
    /\ sp = FALSE
    /\ ResolverIdle
    /\ EngineIdle
    /\ DeliveryIdle
    /\ WorkersIdle
    /\ service_state = "initializing"
    /\ paused_reason = ""
    /\ state_history = <<[state |-> "initializing", reason |-> ""]>>
    /\ current_date = 0
    /\ daily_added_songs \in 0..DailyCap
    /\ daily_search_failures \in 0..DailyCap
    /\ today = 0
    /\ period \in Periods
    /\ last_summary_log_date = -1
    /\ startup_email_sent = FALSE
    /\ shutdown_summary_sent = FALSE
    /\ \E main_pc \in {"absent", "auth"} :
          pc = [t \in Threads |->
                   IF t = "init" THEN "auth" ELSE IF t = "main" THEN main_pc ELSE "idle"]
    /\ force_checks = 0
    /\ sampled = FALSE
    /\ startups = 0
    /\ summaries = 0

SetState(u) ==
    /\ service_state' = u.state
    /\ paused_reason' = u.reason
    /\ state_history' = u.history

\* initialize_bot: authenticate_spotify, then the error state if it failed.
InitializeAuth ==
    /\ pc["init"] = "auth"
    /\ \E auth_success \in BOOLEAN :
          /\ sp' = auth_success
          /\ IF auth_success
             THEN /\ pc' = [pc EXCEPT !["init"] = "start"]
                  /\ UNCHANGED <<service_state, paused_reason, state_history>>
             ELSE /\ pc' = [pc EXCEPT !["init"] = "done"]
                  /\ SetState(update_service_state(service_state, paused_reason, state_history, "error", "Spotify authentication failed"))
          /\ op' = [name |-> "initialize_auth", auth_success |-> auth_success]
    /\ UNCHANGED <<today, period, last_summary_log_date, startup_email_sent, shutdown_summary_sent, force_checks, sampled, startups, summaries>>
    /\ UNCHANGED <<resolver_vars, playlist_vars, queue_vars, calls, delivery_vars, worker_vars>>
    /\ UNCHANGED <<current_date, daily_added_songs, daily_search_failures>>

\* initialize_bot: the monitoring thread is started.
InitializeStartMonitor ==
    /\ pc["init"] = "start"
    /\ pc' = [pc EXCEPT !["init"] = "complete", !["monitor"] = "run"]
    /\ op' = [name |-> "start_monitor"]
    /\ UNCHANGED <<service_state, paused_reason, state_history, today, period, last_summary_log_date, startup_email_sent, shutdown_summary_sent, force_checks, sampled, startups, summaries>>
    /\ UNCHANGED <<sp, resolver_vars, playlist_vars, queue_vars, calls, delivery_vars, worker_vars>>
    /\ UNCHANGED <<current_date, daily_added_songs, daily_search_failures>>

\* initialize_bot, line 2075.
InitializeComplete ==
    /\ pc["init"] = "complete"
    /\ pc' = [pc EXCEPT !["init"] = "done"]
    /\ SetState(update_service_state(service_state, paused_reason, state_history, "playing", "Initialization complete"))
    /\ op' = [name |-> "initialize_complete"]
    /\ UNCHANGED <<today, period, last_summary_log_date, startup_email_sent, shutdown_summary_sent, force_checks, sampled, startups, summaries>>
    /\ UNCHANGED <<sp, resolver_vars, playlist_vars, queue_vars, calls, delivery_vars, worker_vars>>
    /\ UNCHANGED <<current_date, daily_added_songs, daily_search_failures>>

\* run_bot.main: authenticate_spotify, load_state, diagnostics; run is next
\* whatever authenticate_spotify returned.
MainAuth ==
    /\ pc["main"] = "auth"
    /\ \E auth_success \in BOOLEAN :
          /\ sp' = auth_success
          /\ op' = [name |-> "main_auth", auth_success |-> auth_success]
    /\ pc' = [pc EXCEPT !["main"] = "run"]
    /\ UNCHANGED <<service_state, paused_reason, state_history, today, period, last_summary_log_date, startup_email_sent, shutdown_summary_sent, force_checks, sampled, startups, summaries>>
    /\ UNCHANGED <<resolver_vars, playlist_vars, queue_vars, calls, delivery_vars, worker_vars>>
    /\ UNCHANGED <<current_date, daily_added_songs, daily_search_failures>>

\* run, lines 1561-1562.
RunStart(r) ==
    /\ pc[r] = "run"
    /\ pc' = [pc EXCEPT ![r] = "check"]
    /\ SetState(update_service_state(service_state, paused_reason, state_history, "playing", ""))
    /\ op' = [name |-> "run_start", thread |-> r]
    /\ UNCHANGED <<today, period, last_summary_log_date, startup_email_sent, shutdown_summary_sent, force_checks, sampled, startups, summaries>>
    /\ UNCHANGED <<sp, resolver_vars, playlist_vars, queue_vars, calls, delivery_vars, worker_vars>>
    /\ UNCHANGED <<current_date, daily_added_songs, daily_search_failures>>

\* run, lines 1565-1569: without a client the state is 'error' and run returns.
RunCheck(r) ==
    /\ pc[r] = "check"
    /\ IF ~sp
       THEN /\ pc' = [pc EXCEPT ![r] = "returned"]
            /\ SetState(update_service_state(service_state, paused_reason, state_history, "error", "Spotify client not available"))
       ELSE /\ pc' = [pc EXCEPT ![r] = "top"]
            /\ UNCHANGED <<service_state, paused_reason, state_history>>
    /\ op' = [name |-> "run_check", thread |-> r]
    /\ UNCHANGED <<today, period, last_summary_log_date, startup_email_sent, shutdown_summary_sent, force_checks, sampled, startups, summaries>>
    /\ UNCHANGED <<sp, resolver_vars, playlist_vars, queue_vars, calls, delivery_vars, worker_vars>>
    /\ UNCHANGED <<current_date, daily_added_songs, daily_search_failures>>

\* One pass of the loop of run up to its tick, lines 1597-1610 and 1616-1617:
\* the day rollover, the test of the window, the state it sets.
LoopTop(r) ==
    /\ pc[r] = "top"
    /\ LET new_day == last_summary_log_date < today
           start_sent == IF new_day THEN FALSE ELSE startup_email_sent
           summary_sent == IF new_day THEN FALSE ELSE shutdown_summary_sent
       IN /\ last_summary_log_date' = IF new_day THEN today ELSE last_summary_log_date
          /\ startup_email_sent' = start_sent
          /\ shutdown_summary_sent' = summary_sent
          /\ daily_added_songs' = IF new_day THEN 0 ELSE daily_added_songs
          /\ daily_search_failures' = IF new_day THEN 0 ELSE daily_search_failures
          /\ UNCHANGED current_date
          /\ IF period = "window"
             THEN /\ service_state' = "playing"
                  /\ paused_reason' = ""
                  /\ state_history' = update_service_state(service_state, paused_reason, state_history, "playing", "").history
                  /\ pc' = [pc EXCEPT ![r] = IF start_sent THEN "in_tick" ELSE "startup"]
             ELSE /\ SetState(update_service_state(service_state, paused_reason, state_history, "paused", "out_of_hours"))
                  /\ pc' = [pc EXCEPT ![r] = IF summary_sent THEN "sleep" ELSE "summary"]
    /\ sampled' = TRUE
    /\ op' = [name |-> "loop_top", thread |-> r]
    /\ UNCHANGED <<today, period, force_checks, startups, summaries>>
    /\ UNCHANGED <<sp, resolver_vars, playlist_vars, queue_vars, calls, delivery_vars, worker_vars>>

\* Line 1611: send_startup_notification and its flags; process_main_cycle is
\* next.
LoopStartup(r) ==
    /\ pc[r] = "startup"
    /\ startups' = Bump(startups)
    /\ startup_email_sent' = TRUE
    /\ shutdown_summary_sent' = FALSE
    /\ pc' = [pc EXCEPT ![r] = "in_tick"]
    /\ op' = [name |-> "startup_notification", thread |-> r]
    /\ UNCHANGED <<service_state, paused_reason, state_history, today, period, last_summary_log_date, force_checks, sampled, summaries>>
    /\ UNCHANGED <<sp, resolver_vars, playlist_vars, queue_vars, calls, delivery_vars, worker_vars>>
    /\ UNCHANGED <<current_date, daily_added_songs, daily_search_failures>>

\* How a tick ends for its caller: it returns, or an exception leaves it.
\* With a client, a call of the tick may have been refused by Spotify for
\* its authorization (spotify_api_call_with_retry raises that at once, line
\* 856); the callers in the tick catch it, or it leaves the tick.
TickOutcomes(client) ==
    {[outcome |-> "completed", auth_failed |-> FALSE]}
    \cup (IF client
          THEN {[outcome |-> o, auth_failed |-> a] :
                   o \in {"completed", "raised"}, a \in BOOLEAN}
          ELSE {})

\* process_main_cycle returns to the loop, or its exception is logged at
\* lines 1621-1623.
LoopTickEnd(r) ==
    /\ pc[r] = "in_tick"
    /\ pc' = [pc EXCEPT ![r] = "sleep"]
    /\ \E t \in TickOutcomes(sp) :
          op' = [name |-> "loop_tick", thread |-> r, outcome |-> t.outcome,
                 auth_failed |-> t.auth_failed]
    /\ UNCHANGED <<service_state, paused_reason, state_history, today, period, last_summary_log_date, startup_email_sent, shutdown_summary_sent, force_checks, sampled, startups, summaries>>
    /\ UNCHANGED <<sp, resolver_vars, playlist_vars, queue_vars, calls, delivery_vars, worker_vars>>
    /\ TickCounts

\* Line 1618: log_and_send_daily_summary and its flags.
LoopSummary(r) ==
    /\ pc[r] = "summary"
    /\ summaries' = Bump(summaries)
    /\ shutdown_summary_sent' = TRUE
    /\ startup_email_sent' = FALSE
    /\ pc' = [pc EXCEPT ![r] = "sleep"]
    /\ op' = [name |-> "daily_summary", thread |-> r]
    /\ UNCHANGED <<service_state, paused_reason, state_history, today, period, last_summary_log_date, force_checks, sampled, startups>>
    /\ UNCHANGED <<sp, resolver_vars, playlist_vars, queue_vars, calls, delivery_vars, worker_vars>>
    /\ daily_added_songs' = 0
    /\ daily_search_failures' = 0
    /\ UNCHANGED current_date

\* time.sleep of the loop is over.
LoopSleep(r) ==
    /\ pc[r] = "sleep"
    /\ pc' = [pc EXCEPT ![r] = "top"]
    /\ op' = [name |-> "sleep", thread |-> r]
    /\ UNCHANGED <<service_state, paused_reason, state_history, today, period, last_summary_log_date, startup_email_sent, shutdown_summary_sent, force_checks, sampled, startups, summaries>>
    /\ UNCHANGED <<sp, resolver_vars, playlist_vars, queue_vars, calls, delivery_vars, worker_vars>>
    /\ UNCHANGED <<current_date, daily_added_songs, daily_search_failures>>

\* /admin/pause_resume.
admin_pause_resume ==
    /\ IF service_state = "playing"
       THEN SetState(update_service_state(service_state, paused_reason, state_history, "paused", "manual"))
       ELSE SetState(update_service_state(service_state, paused_reason, state_history, "playing", ""))
    /\ op' = [name |-> "pause_resume"]
    /\ UNCHANGED <<today, period, last_summary_log_date, startup_email_sent, shutdown_summary_sent, pc, force_checks, sampled, startups, summaries>>
    /\ UNCHANGED <<sp, resolver_vars, playlist_vars, queue_vars, calls, delivery_vars, worker_vars>>
    /\ UNCHANGED <<current_date, daily_added_songs, daily_search_failures>>

\* /admin/force_check: a thread is started that runs process_main_cycle.
admin_force_check ==
    /\ force_checks < MaxForceChecks
    /\ force_checks' = force_checks + 1
    /\ op' = [name |-> "force_check"]
    /\ UNCHANGED <<service_state, paused_reason, state_history, today, period, last_summary_log_date, startup_email_sent, shutdown_summary_sent, pc, sampled, startups, summaries>>
    /\ UNCHANGED <<sp, resolver_vars, playlist_vars, queue_vars, calls, delivery_vars, worker_vars>>
    /\ UNCHANGED <<current_date, daily_added_songs, daily_search_failures>>

\* run_manual_check: process_main_cycle returns, or its exception is logged.
ForceCheckEnd ==
    /\ force_checks > 0
    /\ force_checks' = force_checks - 1
    /\ \E t \in TickOutcomes(sp) :
          op' = [name |-> "force_check_end", outcome |-> t.outcome,
                 auth_failed |-> t.auth_failed]
    /\ UNCHANGED <<service_state, paused_reason, state_history, today, period, last_summary_log_date, startup_email_sent, shutdown_summary_sent, pc, sampled, startups, summaries>>
    /\ UNCHANGED <<sp, resolver_vars, playlist_vars, queue_vars, calls, delivery_vars, worker_vars>>
    /\ TickCounts

\* /status: the service state is read and answered.
status ==
    /\ op' = [name |-> "status", service_state |-> service_state]
    /\ UNCHANGED <<scheduler_vars>>
    /\ UNCHANGED <<sp, resolver_vars, playlist_vars, queue_vars, calls, delivery_vars, worker_vars>>
    /\ UNCHANGED <<current_date, daily_added_songs, daily_search_failures>>

\* The clock passes START_TIME, END_TIME or midnight.  A running loop reads
\* the clock many times in each period (every CHECK_INTERVAL or five of them).
ClockAdvance ==
    /\ sampled \/ \A r \in Runners : pc[r] \notin LoopPcs
    /\ \/ /\ period = "night"
          /\ period' = "window"
          /\ startups' = 0
          /\ UNCHANGED <<today, summaries>>
       \/ /\ period = "window"
          /\ period' = "evening"
          /\ summaries' = 0
          /\ UNCHANGED <<today, startups>>
       \/ /\ period = "evening"
          /\ today < MaxDays
          /\ period' = "night"
          /\ today' = today + 1
          /\ UNCHANGED <<startups, summaries>>
    /\ sampled' = FALSE
    /\ op' = [name |-> "clock"]
    /\ UNCHANGED <<service_state, paused_reason, state_history, last_summary_log_date, startup_email_sent, shutdown_summary_sent, pc, force_checks>>
    /\ UNCHANGED <<sp, resolver_vars, playlist_vars, queue_vars, calls, delivery_vars, worker_vars>>
    /\ UNCHANGED <<current_date, daily_added_songs, daily_search_failures>>

SchedulerNext ==
    \/ InitializeAuth
    \/ InitializeStartMonitor
    \/ InitializeComplete
    \/ MainAuth
    \/ \E r \in Runners : RunStart(r)
    \/ \E r \in Runners : RunCheck(r)
    \/ \E r \in Runners : LoopTop(r)
    \/ \E r \in Runners : LoopStartup(r)
    \/ \E r \in Runners : LoopTickEnd(r)
    \/ \E r \in Runners : LoopSummary(r)
    \/ \E r \in Runners : LoopSleep(r)
    \/ admin_pause_resume
    \/ admin_force_check
    \/ ForceCheckEnd
    \/ status
    \/ ClockAdvance

SpecScheduler == SchedulerInit /\ [][SchedulerNext]_vars

(***************************************************************************)
(* Properties of the scheduler.                                            *)
(***************************************************************************)
\* The ticks in progress: those of the loops and those of /admin/force_check.
TicksInProgress == Cardinality({r \in Runners : pc[r] = "in_tick"}) + force_checks

\* A loop of run starts a tick in this step.
LoopStartsTick == \E r \in Runners : pc[r] # "in_tick" /\ pc'[r] = "in_tick"

ManuallyPaused == service_state = "paused" /\ paused_reason = "manual"

\* The step is one of the loop of run.
LoopStep == op'.name \in {"loop_top", "startup_notification", "loop_tick", "daily_summary", "sleep"}

\* C11: while the service is paused by /admin/pause_resume, the loop of run
\* starts no tick and does not change the service state.
C11_PauseSuspendsTicking ==
    [][ManuallyPaused =>
          /\ ~LoopStartsTick
          /\ LoopStep => service_state' = service_state]_vars

\* C12: at most one process_main_cycle is in progress, whether started by a
\* loop of run or by /admin/force_check.
C12_NoOverlappingTicks == TicksInProgress <= 1

\* C13: after the clock has left the window, log_and_send_daily_summary is
\* not triggered a second time before the window has been entered and left
\* again: not after midnight either.
C13_SummaryOncePerExit == summaries <= 1

\* C14: after the clock has entered the window, send_startup_notification is
\* not triggered a second time by the loop of run while the window lasts.
C14_StartupOncePerEntry == startups <= 1

\* Authentication has failed: every authenticate_spotify of the start is
\* over and there is no client.
AuthFailed == ~sp /\ pc["init"] # "auth" /\ pc["main"] # "auth"

\* C15: the scheduler (not /admin/pause_resume) takes the state from
\* 'initializing' to 'playing' only with a client and inside the window, and
\* the state is not 'playing' by it after a failed authentication.
C15_LeavesInitializing ==
    [][op'.name # "pause_resume" =>
          /\ (service_state = "initializing" /\ service_state' = "playing")
                => (sp' /\ period = "window")
          /\ (service_state # "playing" /\ service_state' = "playing")
                => ~AuthFailed']_vars

\* C16: when authentication fails in initialize_bot, or a tick ends on a call
\* that Spotify refused for its authorization, the state is 'error'.
C16_AuthFailureToError ==
    /\ (op.name = "initialize_auth" /\ ~op.auth_success) => service_state = "error"
    /\ (op.name \in {"loop_tick", "force_check_end"} /\ op.auth_failed)
          => service_state = "error"

\* C17: while the state is 'error' no loop starts a tick and only
\* /admin/pause_resume takes the state out of 'error'; /status and
\* /admin/pause_resume can be served.
C17_ErrorHaltsScheduler ==
    [][service_state = "error" =>
          /\ ~LoopStartsTick
          /\ service_state' # "error" => op'.name = "pause_resume"
          /\ ENABLED status
          /\ ENABLED admin_pause_resume]_vars

\* Start-up is over: initialize_bot has returned and every thread that runs
\* run is in its loop or has left it.
StartupOver ==
    /\ pc["init"] = "done"
    /\ pc["main"] \notin {"auth", "run", "check"}
    /\ pc["monitor"] \notin {"run", "check"}

\* The daily lists have been cleared or loaded afresh for the date of today,
\* and the flags reset for it.
DayCountersReset == last_summary_log_date = today \/ current_date = today
DayFlagsReset ==
    \/ last_summary_log_date = today
    \/ ~startup_email_sent /\ ~shutdown_summary_sent

\* The step of the loop that finds a new date.
RolloverStep == last_summary_log_date' # last_summary_log_date

\* C33: after a date change the daily lists and both flags are reset,
\* whatever the service state is: the step that finds the new date clears
\* them, and by the time the first night of a new date ends they have been
\* reset for that date.
C33_RolloverInEveryState ==
    /\ [][RolloverStep =>
            /\ daily_added_songs' = 0 /\ daily_search_failures' = 0
            /\ ~startup_email_sent' /\ ~shutdown_summary_sent']_vars
    /\ [][(period = "night" /\ period' = "window" /\ today > 0 /\ StartupOver)
            => DayCountersReset /\ DayFlagsReset]_vars

\* C34: every change of the service state appends one entry (new state,
\* reason) to the state history, a step that does not change the state leaves
\* the history alone, the history never holds more than HistoryMaxLen entries,
\* and its last entry carries the current service state and reason.
C34_HistoryFollowsState ==
    /\ [](/\ Len(state_history) <= HistoryMaxLen
          /\ state_history # <<>>
          /\ state_history[Len(state_history)]
                = [state |-> service_state, reason |-> paused_reason])
    /\ [][IF service_state' # service_state
          THEN state_history' =
                  last_entries(Append(state_history,
                                      [state |-> service_state', reason |-> paused_reason']),
                               HistoryMaxLen)
          ELSE state_history' = state_history]_vars

(***************************************************************************)
(* Properties of the engine state over restarts and over ticks that meet a *)
(* transient error, under SpecQueue.                                       *)
(***************************************************************************)
\* C18: a restart (save_state at exit, a new process, load_state) leaves
\* last_added_radiox_track_id at the value it had, so that the event that
\* was current before the restart is skipped by the first tick after it.
C18_EngineStateSurvivesRestart ==
    [][op'.name = "restart" =>
          last_added_radiox_track_id' = last_added_radiox_track_id]_vars

\* C20: a tick whose fresh event met a transient error of the search is not
\* left by an exception: it goes on to its save_state, which writes the
\* queue as the tick leaves it.
C20_TransientIsClassified ==
    [][(op'.name = "tick" /\ op'.outcome = "transient")
       => /\ ~op'.raised
          /\ failed_queue_file' = save_state(failed_search_queue', failed_queue_file)]_vars

(***************************************************************************)
(* Sweeps that overlap: check_and_remove_duplicates runs in the thread of  *)
(* the tick when the sweep is due and in a thread of its own for each      *)
(* /force_duplicates; nothing serialises the two.  Each call of the Spotify *)
(* client is one step.                                                     *)
(***************************************************************************)
Sweepers == {"cycle", "admin"}
SweeperIdle == [pc |-> "idle", dups |-> <<>>, k |-> 0]

SweepsInit ==
    /\ SchedulerIdle
    /\ DeliveryIdle
    /\ sp = TRUE
    /\ ResolverIdle
    /\ QueueIdle
    /\ playlist \in Playlists
    /\ RECENTLY_ADDED_SPOTIFY_IDS = <<>>
    /\ op = NoOp
    /\ calls = <<>>
    /\ sweepers = [t \in Sweepers |-> SweeperIdle]
    /\ drainers = <<>>

\* Lines 1011-1021: the thread reads the playlist and counts the tracks.
SweeperList(t) ==
    /\ sweepers[t].pc = "idle"
    /\ LET dups == duplicated_ids(playlist)
       IN sweepers' = [sweepers EXCEPT ![t] =
                          IF dups = <<>> THEN [pc |-> "done", dups |-> dups, k |-> 0]
                          ELSE [pc |-> "remove", dups |-> dups, k |-> 1]]
    /\ op' = [name |-> "sweeper", thread |-> t, call |-> "playlist_items"]
    /\ UNCHANGED <<scheduler_vars, delivery_vars, drainers, sp, resolver_vars, playlist_vars, queue_vars, calls>>

\* Line 1028: every occurrence of the next duplicated track is removed.
SweeperRemove(t) ==
    /\ sweepers[t].pc = "remove"
    /\ playlist' = playlist_remove_all_occurrences_of_items(playlist, sweepers[t].dups[sweepers[t].k])
    /\ sweepers' = [sweepers EXCEPT ![t].pc = "insert"]
    /\ op' = [name |-> "sweeper", thread |-> t,
              call |-> "playlist_remove_all_occurrences_of_items"]
    /\ UNCHANGED <<scheduler_vars, delivery_vars, drainers, sp, resolver_vars, RECENTLY_ADDED_SPOTIFY_IDS, queue_vars, calls>>

\* Lines 1029-1030: the track is inserted once and recorded as recent.
SweeperInsert(t) ==
    /\ sweepers[t].pc = "insert"
    /\ LET w == sweepers[t]
       IN /\ playlist' = Append(playlist, w.dups[w.k])
          /\ RECENTLY_ADDED_SPOTIFY_IDS' = deque_append(RECENTLY_ADDED_SPOTIFY_IDS, w.dups[w.k], RecentMaxLen)
          /\ sweepers' = [sweepers EXCEPT ![t] =
                             IF w.k < Len(w.dups)
                             THEN [w EXCEPT !.pc = "remove", !.k = w.k + 1]
                             ELSE [w EXCEPT !.pc = "done"]]
    /\ op' = [name |-> "sweeper", thread |-> t, call |-> "playlist_add_items"]
    /\ UNCHANGED <<scheduler_vars, delivery_vars, drainers, sp, resolver_vars, queue_vars, calls>>

SweepsNext ==
    \E t \in Sweepers : SweeperList(t) \/ SweeperRemove(t) \/ SweeperInsert(t)

SpecSweeps == SweepsInit /\ [][SweepsNext]_vars

\* C37: when the sweep of the cycle and the forced sweep have both completed,
\* each track either of them found duplicated is in the playlist once, however
\* their calls were interleaved.
C37_OverlappingSweepsConverge ==
    (sweepers # <<>> /\ \A t \in Sweepers : sweepers[t].pc = "done")
        => \A t \in Sweepers : \A i \in DOMAIN sweepers[t].dups :
              Count(playlist, sweepers[t].dups[i]) = 1

(***************************************************************************)
(* Drains that overlap: process_failed_search_queue runs in the thread of  *)
(* the tick and in a thread of its own for each /force_queue and           *)
(* /admin/retry_failed; nothing serialises them.  The test of the queue,   *)
(* the popleft and the rest of the drain are one step each.                *)
(***************************************************************************)
Drainers == {"cycle", "admin"}
DrainerIdle == [pc |-> "idle", item |-> NONE]

DrainsInit ==
    /\ SchedulerIdle
    /\ DeliveryIdle
    /\ sp = TRUE
    /\ ResolverIdle
    /\ playlist = <<>>
    /\ RECENTLY_ADDED_SPOTIFY_IDS = <<>>
    /\ failed_queue_file \in QueueFiles
    /\ failed_search_queue = load_state(failed_queue_file)
    /\ last_added_radiox_track_id = NONE
    /\ drains = NoHistory
    /\ transient_run = NoHistory
    /\ op = NoOp
    /\ calls = <<>>
    /\ sweepers = <<>>
    /\ drainers = [t \in Drainers |-> DrainerIdle]

\* Line 1035: the drain returns when the queue is empty.
DrainerCheck(t) ==
    /\ drainers[t].pc = "idle"
    /\ drainers' = [drainers EXCEPT ![t].pc =
                       IF failed_search_queue = <<>> THEN "done" ELSE "checked"]
    /\ op' = [name |-> "drainer", thread |-> t, step |-> "check"]
    /\ UNCHANGED <<scheduler_vars, delivery_vars, sweepers, sp, resolver_vars, playlist_vars, queue_vars, calls>>

\* Line 1037: popleft, which raises IndexError on an empty deque.
DrainerPop(t) ==
    /\ drainers[t].pc = "checked"
    /\ IF failed_search_queue = <<>>
       THEN /\ drainers' = [drainers EXCEPT ![t].pc = "pop_failed"]
            /\ UNCHANGED failed_search_queue
       ELSE /\ drainers' = [drainers EXCEPT ![t] =
                               [pc |-> "popped", item |-> Head(failed_search_queue)]]
            /\ failed_search_queue' = popleft(failed_search_queue)
    /\ op' = [name |-> "drainer", thread |-> t, step |-> "popleft"]
    /\ UNCHANGED <<scheduler_vars, delivery_vars, sweepers, sp, resolver_vars, playlist_vars, failed_queue_file, last_added_radiox_track_id, drains, transient_run, calls>>

\* Lines 1038-1047: the search for the item popped, then its insert, its
\* re-queue or its discard.
DrainerFinish(t) ==
    /\ drainers[t].pc = "popped"
    /\ \E d \in process_failed_search_queue(sp, <<drainers[t].item>> \o failed_search_queue, playlist, RECENTLY_ADDED_SPOTIFY_IDS) :
          /\ failed_search_queue' = d.queue
          /\ playlist' = d.playlist
          /\ RECENTLY_ADDED_SPOTIFY_IDS' = d.recent
          /\ drains' = Drained(drains, d.drain)
          /\ op' = [name |-> "drainer", thread |-> t, step |-> d.drain.outcome]
    /\ drainers' = [drainers EXCEPT ![t] = [pc |-> "done", item |-> NONE]]
    /\ UNCHANGED <<scheduler_vars, delivery_vars, sweepers, sp, resolver_vars, failed_queue_file, last_added_radiox_track_id, transient_run, calls>>

\* The thread is given the next drain to run.
DrainerAgain(t) ==
    /\ drainers[t].pc = "done"
    /\ drainers' = [drainers EXCEPT ![t] = DrainerIdle]
    /\ op' = [name |-> "drainer", thread |-> t, step |-> "start"]
    /\ UNCHANGED <<scheduler_vars, delivery_vars, sweepers, sp, resolver_vars, playlist_vars, queue_vars, calls>>

DrainsNext ==
    \E t \in Drainers :
       DrainerCheck(t) \/ DrainerPop(t) \/ DrainerFinish(t) \/ DrainerAgain(t)

SpecDrains == DrainsInit /\ [][DrainsNext]_vars

\* C38: with drains running in two threads, no drain pops from an empty
\* queue, and no item is held by both drains at once.
C38_NoPopFromEmptyQueue ==
    drainers # <<>> =>
        /\ \A t \in Drainers : drainers[t].pc # "pop_failed"
        /\ \A t, u \in Drainers :
              (t # u /\ drainers[t].pc = "popped" /\ drainers[u].pc = "popped")
                  => drainers[t].item.radiox_id # drainers[u].item.radiox_id

(***************************************************************************)
(* spotify_api_call_with_retry: the wrapper of every call of the Spotify   *)
(* client.  Each invocation of the wrapped call succeeds or raises; calls  *)
(* holds how the invocations made so far have ended.                       *)
(***************************************************************************)
max_retries == 3
base_delay == 5
\* The seconds a Retry-After header of digits asks for.
RetryAfterSeconds == 1

\* How one invocation can end: it returns, or it raises a network error
\* (ConnectionError, ReadTimeout, Timeout), a SpotifyException with status
\* 429 (without a Retry-After header, with one of digits, with one that is a
\* date), one with a status of 500, 502, 503 or 504, or anything else.
RateLimited == {"429", "429_retry_after", "429_retry_after_date"}
CallOutcomes == {"ok", "network", "5xx", "other"} \cup RateLimited
Retryable == {"network", "5xx"} \cup RateLimited

\* base_delay * (2**attempt)
backoff(attempt) == base_delay * 2^attempt

\* An iteration that lets the loop run out after a last 429 answer and
\* returns nothing.
api_attempt_swallows_429(attempt, outcome, last_exception) ==
    IF outcome = "ok" THEN [status |-> "returned", error |-> "none", slept |-> 0]
    ELSE IF outcome \in RateLimited /\ attempt = max_retries - 1
    THEN [status |-> "returned", error |-> "none", slept |-> 0]
    ELSE IF outcome \in Retryable /\ attempt < max_retries - 1
    THEN [status |-> "running", error |-> outcome, slept |-> backoff(attempt)]
    ELSE [status |-> "raised", error |-> outcome, slept |-> 0]

\* One iteration of the loop (attempt counts from 0), and the statements
\* after the loop when it was the last: the status of the call and the
\* exception raised or kept in last_exception, the seconds slept.
api_attempt(attempt, outcome, last_exception) ==
    IF outcome = "ok" THEN [status |-> "returned", error |-> "none", slept |-> 0]
    ELSE IF outcome \in {"network", "5xx"}
    THEN IF attempt < max_retries - 1
         THEN [status |-> "running", error |-> outcome, slept |-> backoff(attempt)]
         ELSE [status |-> "raised", error |-> outcome, slept |-> 0]
    ELSE IF outcome \in RateLimited
    THEN LET retry_after == IF outcome = "429_retry_after"
                            THEN RetryAfterSeconds ELSE backoff(attempt)
         IN IF attempt + 1 < max_retries
            THEN [status |-> "running", error |-> outcome, slept |-> retry_after]
            ELSE [status |-> "raised", error |-> outcome, slept |-> retry_after]
    ELSE [status |-> "raised", error |-> outcome, slept |-> 0]

RetryInit ==
    /\ ControlIdle
    /\ sp = TRUE
    /\ ResolverIdle
    /\ EngineIdle

\* spotify_api_call_with_retry is called.
ApiCallStart ==
    /\ IF op.name = "api_call" THEN op.status # "running" ELSE TRUE
    /\ op' = [name |-> "api_call", attempt |-> 0, status |-> "running",
              last_exception |-> "none", slept |-> 0]
    /\ calls' = <<>>
    /\ UNCHANGED <<control_vars, sp, resolver_vars, playlist_vars, queue_vars>>

\* One pass of its loop: the wrapped call is invoked and ends in some way.
ApiCallAttempt ==
    /\ op.name = "api_call" /\ op.status = "running"
    /\ \E outcome \in CallOutcomes :
          LET a == api_attempt(op.attempt, outcome, op.last_exception)
          IN /\ calls' = Append(calls, outcome)
             /\ op' = [name |-> "api_call", attempt |-> op.attempt + 1,
                       status |-> a.status, last_exception |-> a.error,
                       slept |-> a.slept]
    /\ UNCHANGED <<control_vars, sp, resolver_vars, playlist_vars, queue_vars>>

RetryNext == ApiCallStart \/ ApiCallAttempt

SpecRetry == RetryInit /\ [][RetryNext]_vars

ApiCall == op.name = "api_call"
LastCall == calls[Len(calls)]

\* C35: spotify_api_call_with_retry invokes the wrapped call at most three
\* times; it goes on only after retryable errors, returns at the first
\* invocation that succeeds, raises at once the error that is not retryable,
\* and after a third retryable error raises that error.
C35_RetryIsBounded ==
    ApiCall =>
        /\ Len(calls) <= max_retries
        /\ Len(calls) = op.attempt
        /\ \A i \in 1..(Len(calls) - 1) : calls[i] \in Retryable
        /\ op.status = "running" =>
               Len(calls) < max_retries /\ \A i \in DOMAIN calls : calls[i] \in Retryable
        /\ op.status = "returned" => calls # <<>> /\ LastCall = "ok"
        /\ op.status = "raised" =>
               /\ calls # <<>> /\ LastCall # "ok"
               /\ op.last_exception = LastCall
               /\ LastCall \in Retryable => Len(calls) = max_retries

\* C35, witness: the third invocation was answered with 429, after two
\* retryable errors, and the call has raised.
C35_Witness ==
    /\ ApiCall
    /\ op.status = "raised"
    /\ Len(calls) = max_retries
    /\ LastCall \in RateLimited

(***************************************************************************)
(* Double delivery: the feed polled by the tick and the WebSocket of the   *)
(* real-time listener report the same event, and process_main_cycle and    *)
(* _process_song_immediately handle it in two threads.  Each step below is *)
(* one read or write of the shared state or one call to Spotify.           *)
(***************************************************************************)
\* The threads that handle an event.
Handlers == {"tick", "listener"}
HandlerPcs == {"new", "search", "check_recent", "size", "track", "insert", "record", "added", "failed", "done"}

DeliveryInit ==
    /\ SchedulerIdle
    /\ WorkersIdle
    /\ sp = TRUE
    /\ ResolverIdle
    /\ EngineIdle
    /\ delivered = NoDelivery
    /\ handlers = [h \in Handlers |-> "done"]
    /\ inserts = 0

HandlerStep(h, from, to) ==
    /\ handlers[h] = from
    /\ handlers' = [handlers EXCEPT ![h] = to]

\* An event of the station reaches both threads; its track is the one both
\* resolutions find on Spotify.
Deliver ==
    /\ \A h \in Handlers : handlers[h] = "done"
    /\ Len(playlist) + Cardinality(Handlers) <= MaxPlaylistLen
    /\ \E radiox_id \in SourceIds, track \in CatalogIds :
          delivered' = [radiox_id |-> radiox_id, track |-> track]
    /\ handlers' = [h \in Handlers |-> "new"]
    /\ inserts' = 0
    /\ op' = [name |-> "deliver"]
    /\ UNCHANGED <<scheduler_vars, worker_vars, sp, resolver_vars, playlist_vars, queue_vars, calls>>

\* Line 1647 (tick) and line 191 (listener): an event whose id is the last
\* one added is skipped; line 212: the listener skips outside the window.
HandlerNew(h) ==
    /\ handlers[h] = "new"
    /\ \E in_window \in BOOLEAN :
          handlers' = [handlers EXCEPT ![h] =
                          IF delivered.radiox_id = last_added_radiox_track_id THEN "done"
                          ELSE IF h = "listener" /\ ~in_window THEN "done"
                          ELSE "search"]
    /\ op' = [name |-> "new", handler |-> h]
    /\ UNCHANGED <<scheduler_vars, worker_vars, delivered, inserts, sp, resolver_vars, playlist_vars, queue_vars, calls>>

\* Lines 1651-1655 and 223-224: the resolution finds the track, finds nothing
\* or raises.  The tick records the id of an event it has resolved
\* (line 1655); an exception leaves the tick, and is caught in the listener.
HandlerSearch(h) ==
    /\ handlers[h] = "search"
    /\ \E outcome \in {"found", "none", "raised"} :
          /\ handlers' = [handlers EXCEPT ![h] = IF outcome = "found" THEN "check_recent" ELSE "done"]
          /\ last_added_radiox_track_id' =
                IF h = "tick" /\ outcome = "none"
                THEN delivered.radiox_id ELSE last_added_radiox_track_id
          /\ op' = [name |-> "search", handler |-> h, outcome |-> outcome]
    /\ UNCHANGED <<scheduler_vars, worker_vars, delivered, inserts, sp, resolver_vars, playlist_vars, failed_search_queue, failed_queue_file, drains, transient_run, calls>>

\* add_song_to_playlist, lines 958-961: a track recently added is not
\* inserted and the call returns True.
HandlerCheckRecent(h) ==
    /\ handlers[h] = "check_recent"
    /\ handlers' = [handlers EXCEPT ![h] =
                       IF recently_added(delivered.track, RECENTLY_ADDED_SPOTIFY_IDS)
                       THEN "added" ELSE "size"]
    /\ op' = [name |-> "check_recent", handler |-> h]
    /\ UNCHANGED <<scheduler_vars, worker_vars, delivered, inserts, sp, resolver_vars, playlist_vars, queue_vars, calls>>

\* add_song_to_playlist, lines 962-963: manage_playlist_size.
HandlerSize(h) ==
    /\ HandlerStep(h, "size", "track")
    /\ \E outcome \in SizeOutcomes :
          playlist' = manage_playlist_size(playlist, outcome).playlist
    /\ op' = [name |-> "size", handler |-> h]
    /\ UNCHANGED <<scheduler_vars, worker_vars, delivered, inserts, sp, resolver_vars, RECENTLY_ADDED_SPOTIFY_IDS, queue_vars, calls>>

\* add_song_to_playlist, lines 965-966: sp.track.
HandlerTrack(h) ==
    /\ handlers[h] = "track"
    /\ \E ok \in BOOLEAN :
          handlers' = [handlers EXCEPT ![h] = IF ok THEN "insert" ELSE "failed"]
    /\ op' = [name |-> "track", handler |-> h]
    /\ UNCHANGED <<scheduler_vars, worker_vars, delivered, inserts, sp, resolver_vars, playlist_vars, queue_vars, calls>>

\* add_song_to_playlist, line 967: sp.playlist_add_items, and lines 994-1000
\* when it raises.
HandlerInsert(h) ==
    /\ handlers[h] = "insert"
    /\ \E outcome \in AddOutcomes \ {"track_fails"} :
          /\ handlers' = [handlers EXCEPT ![h] = IF outcome = "ok" THEN "record" ELSE "failed"]
          /\ playlist' = IF outcome = "ok" THEN Append(playlist, delivered.track) ELSE playlist
          /\ inserts' = IF outcome = "ok" THEN inserts + 1 ELSE inserts
          /\ RECENTLY_ADDED_SPOTIFY_IDS' =
                IF outcome = "duplicate_403"
                THEN deque_append(RECENTLY_ADDED_SPOTIFY_IDS, delivered.track, RecentMaxLen)
                ELSE RECENTLY_ADDED_SPOTIFY_IDS
          /\ op' = [name |-> "insert", handler |-> h, outcome |-> outcome]
    /\ UNCHANGED <<scheduler_vars, worker_vars, delivered, sp, resolver_vars, queue_vars, calls>>

\* add_song_to_playlist, lines 969-993: the track is recorded as recently
\* added after the insert.
HandlerRecord(h) ==
    /\ HandlerStep(h, "record", "added")
    /\ RECENTLY_ADDED_SPOTIFY_IDS' = deque_append(RECENTLY_ADDED_SPOTIFY_IDS, delivered.track, RecentMaxLen)
    /\ op' = [name |-> "record", handler |-> h]
    /\ UNCHANGED <<scheduler_vars, worker_vars, delivered, inserts, sp, resolver_vars, playlist, queue_vars, calls>>

\* add_song_to_playlist has returned: the tick records the id of the event
\* (line 1655); the listener does when the call returned True (line 228).
HandlerFinish(h) ==
    /\ handlers[h] \in {"added", "failed"}
    /\ handlers' = [handlers EXCEPT ![h] = "done"]
    /\ last_added_radiox_track_id' =
          IF h = "tick" \/ handlers[h] = "added"
          THEN delivered.radiox_id ELSE last_added_radiox_track_id
    /\ op' = [name |-> "finish", handler |-> h]
    /\ UNCHANGED <<scheduler_vars, worker_vars, delivered, inserts, sp, resolver_vars, playlist_vars, failed_search_queue, failed_queue_file, drains, transient_run, calls>>

DeliveryNext ==
    \/ Deliver
    \/ \E h \in Handlers : HandlerNew(h)
    \/ \E h \in Handlers : HandlerSearch(h)
    \/ \E h \in Handlers : HandlerCheckRecent(h)
    \/ \E h \in Handlers : HandlerSize(h)
    \/ \E h \in Handlers : HandlerTrack(h)
    \/ \E h \in Handlers : HandlerInsert(h)
    \/ \E h \in Handlers : HandlerRecord(h)
    \/ \E h \in Handlers : HandlerFinish(h)

SpecDelivery == DeliveryInit /\ [][DeliveryNext]_vars

\* C19: for an event delivered to the tick and to the listener, at most one
\* playlist_add_items call is made for its track, however the two threads
\* interleave.
C19_DoubleDeliveryTolerated == inserts <= 1

=============================================================================
